---- MODULE Spec2Model ----
(***************************************************************************)
(* A model of texpr (src/texpr.go, lines 1-946): the type registry built   *)
(* by NewSystem, the lexer/parser (parser.parseExpr and friends), the       *)
(* linker (System.link, System.linkArguments, System.convertToExpected,    *)
(* System.setConstant) and Expr.String.                                     *)
(*                                                                         *)
(* Text is a sequence of one-character strings.  Pointers are indices:     *)
(* a *Type is an index into the slice given to NewSystem, a *Value is a    *)
(* record [t, k] (value k of type t), a *Parameter a record [t, k, j], an  *)
(* *Expr an index into the heap `nodes`; the nil pointer is 0.              *)
(***************************************************************************)
EXTENDS Integers, Sequences, FiniteSets, TLC

VARIABLES
    types,   \* the []Type handed to NewSystem (declarations)
    sys,     \* the System NewSystem returned
    sysErr,  \* the error NewSystem returned
    opts,    \* the Options of the current Parse call
    p,       \* the parser of the current Parse call
    nodes,   \* the heap of Expr nodes
    err,     \* the error of the current Parse call
    linkError, \* what sys.link returned to the current Parse call
    strs,    \* the String() of the chain each finished Parse call returned
    round,   \* 1: the caller's Parse call, 2: Parse of the first call's String()
    compiled, \* what Compile returned to the caller, with the calls it made
    pc       \* where the caller is

vars == <<types, sys, sysErr, opts, p, nodes, err, linkError, strs, round, compiled, pc>>

Nil == 0

-----------------------------------------------------------------------------
(* Characters *)

Upper == <<"A","B","C","D","E","F","G","H","I","J","K","L","M",
           "N","O","P","Q","R","S","T","U","V","W","X","Y","Z">>
Lower == <<"a","b","c","d","e","f","g","h","i","j","k","l","m",
           "n","o","p","q","r","s","t","u","v","w","x","y","z">>
Digits == {"0","1","2","3","4","5","6","7","8","9"}

Range(s) == { s[i] : i \in DOMAIN s }

\* Any chars that end a token.
stopChars == {".", ",", "(", ")"}

\* Any chars that are valid ".name" values.
wordChars == Range(Lower) \cup Range(Upper) \cup Digits \cup {"_"}

\* Any chars where you would expect another expression to follow.
nextChars == {"(", ",", "."}

\* '\v', the vertical tab: the string of the one character 0x0B, which has
\* no escape in TLA+ and stands between the quotes as it is.
VerticalTab == ""

\* The characters parseExpr skips, besides the newline.
spaceChars == {" ", "\t", "\r", "\f", VerticalTab}

ToLowerChar(c) ==
    IF \E i \in DOMAIN Upper : Upper[i] = c
    THEN Lower[CHOOSE i \in DOMAIN Upper : Upper[i] = c]
    ELSE c

\* strings.ToLower
ToLower(s) == [i \in DOMAIN s |-> ToLowerChar(s[i])]

\* strings.ReplaceAll(s, "'", "\\'")
RECURSIVE EscapeQuotes(_)
EscapeQuotes(s) ==
    IF s = <<>> THEN <<>>
    ELSE (IF Head(s) = "'" THEN <<"\\", "'">> ELSE <<Head(s)>>) \o EscapeQuotes(Tail(s))

-----------------------------------------------------------------------------
(* Maps (Go map[K]V): functions with a finite domain; a missing key reads   *)
(* as the zero value.                                                       *)

EmptyMap == <<>>

MapPut(m, k, v) == [x \in (DOMAIN m) \cup {k} |-> IF x = k THEN v ELSE m[x]]

MapGet(m, k) == IF k \in DOMAIN m THEN m[k] ELSE Nil

-----------------------------------------------------------------------------
(* Declarations: Type, Value, Parameter as the caller writes them.          *)
(* Default is a *string: <<>> is nil, <<s>> points to s.  Parse names the   *)
(* literal-parse function of the type ("nil": none).                        *)

Parameter(name, type, generic, default) ==
    [Name |-> name, Type |-> type, Generic |-> generic, Default |-> default]

Value(path, aliases, type, generic, parameters, variadic) ==
    [Path |-> path, Aliases |-> aliases, Type |-> type, Generic |-> generic,
     Parameters |-> parameters, Variadic |-> variadic]

Type(name, values, as, enums, parse, parseOrder) ==
    [Name |-> name, Values |-> values, As |-> as, Enums |-> enums,
     Parse |-> parse, ParseOrder |-> parseOrder]

NilValue == [t |-> 0, k |-> 0]
NilParameter == [t |-> 0, k |-> 0, j |-> 0]

-----------------------------------------------------------------------------
(* The Parse functions the tests give their types. *)

IsDigits(s) == s # <<>> /\ \A i \in DOMAIN s : s[i] \in Digits

\* The digits without their leading zeros.
RECURSIVE TrimZeros(_)
TrimZeros(s) == IF s # <<>> /\ Head(s) = "0" THEN TrimZeros(Tail(s)) ELSE s

DigitValue(c) == CHOOSE d \in 0..9 : <<"0","1","2","3","4","5","6","7","8","9">>[d + 1] = c

\* For two strings of digits of the same length: a is no more than b.
RECURSIVE DigitsAtMost(_, _)
DigitsAtMost(a, b) ==
    IF a = <<>> THEN TRUE
    ELSE IF Head(a) # Head(b) THEN DigitValue(Head(a)) < DigitValue(Head(b))
    ELSE DigitsAtMost(Tail(a), Tail(b))

\* 1<<63 - 1 and 1<<63 in digits, the largest int64 and what the least is
\* below zero.
MaxInt64Digits == <<"9","2","2","3","3","7","2","0","3","6","8","5","4","7","7","5","8","0","7">>
MinInt64Digits == <<"9","2","2","3","3","7","2","0","3","6","8","5","4","7","7","5","8","0","8">>

\* The number the digits spell is no more than the number limit spells.
InRange(digits, limit) ==
    \/ Len(TrimZeros(digits)) < Len(limit)
    \/ Len(TrimZeros(digits)) = Len(limit) /\ DigitsAtMost(TrimZeros(digits), limit)

\* strconv.ParseInt(x, 10, 64): an optional sign, then one or more digits that
\* spell a number within int64.
ParseIntOk(x) ==
    IF x # <<>> /\ Head(x) \in {"+", "-"}
    THEN IsDigits(Tail(x))
         /\ InRange(Tail(x), IF Head(x) = "-" THEN MinInt64Digits ELSE MaxInt64Digits)
    ELSE IsDigits(x) /\ InRange(x, MaxInt64Digits)

\* The bool type's Parse: "true" or "false" in any case.
ParseBoolOk(x) == ToLower(x) \in { <<"t","r","u","e">>, <<"f","a","l","s","e">> }

\* Type.Parse(x): [ok, value].  The parsed value is kept as the pair of the
\* function's name and what it read.
TypeParse(kind, x) ==
    CASE kind = "int"  -> [ok |-> ParseIntOk(x), value |-> <<"int", x>>]
      [] kind = "bool" -> [ok |-> ParseBoolOk(x), value |-> <<"bool", ToLower(x)>>]
      [] kind = "text" -> [ok |-> TRUE, value |-> <<"text", x>>]
      [] OTHER         -> [ok |-> FALSE, value |-> <<>>]

\* Expr.Parsed before a literal is parsed.
NilParsed == <<>>

-----------------------------------------------------------------------------
(* NewSystem *)

\* pathValidator: ^([a-zA-Z0-9_]+|[^a-zA-Z0-9_,\.\(\)][^,\.\(\)]*)$
pathValidator(path) ==
    /\ path # <<>>
    /\ \/ \A i \in DOMAIN path : path[i] \in wordChars
       \/ /\ path[1] \notin wordChars \cup stopChars
          /\ \A i \in DOMAIN path : path[i] \notin stopChars

\* t.values[strings.ToLower(a)] = v for each alias a
RECURSIVE putAliases(_, _, _, _)
putAliases(m, aliases, a, k) ==
    IF a > Len(aliases) THEN m
    ELSE putAliases(MapPut(m, ToLower(aliases[a]), k), aliases, a + 1, k)

genericCount(v) == Cardinality({ j \in DOMAIN v.Parameters : v.Parameters[j].Generic })

\* The loop over t.Values: the map built so far and the message of the error
\* it stopped at ("" when it ran to the end).
RECURSIVE indexValues(_, _, _)
indexValues(t, k, m) ==
    IF k > Len(t.Values) THEN [values |-> m, Message |-> ""]
    ELSE LET v == t.Values[k] IN
         IF ~pathValidator(v.Path)
         THEN [values |-> m, Message |-> "is not a valid path"]
         ELSE LET m1 == putAliases(MapPut(m, ToLower(v.Path), k), v.Aliases, 1, k) IN
              IF v.Generic = (v.Type # "")
              THEN [values |-> m1, Message |-> "must have either a type or generic but not both"]
              ELSE IF v.Generic /\ genericCount(v) = 0
              THEN [values |-> m1,
                    Message |-> "cannot have a generic type without one or more generic parameters"]
              ELSE indexValues(t, k + 1, m1)

\* t.enums[strings.ToLower(enumValue)] = enumValue
RECURSIVE indexEnums(_, _, _)
indexEnums(enums, k, m) ==
    IF k > Len(enums) THEN m
    ELSE indexEnums(enums, k + 1, MapPut(m, ToLower(enums[k]), enums[k]))

\* A Type of the caller's slice before NewSystem reaches it: its private maps are nil.
Unindexed(t) ==
    [Name |-> t.Name, Values |-> t.Values, As |-> t.As, Enums |-> t.Enums,
     Parse |-> t.Parse, ParseOrder |-> t.ParseOrder,
     values |-> EmptyMap, as |-> EmptyMap, enums |-> EmptyMap,
     valueType |-> [k \in DOMAIN t.Values |-> Nil]]

\* The first loop of NewSystem, from type i on: the Systems it can leave.  s
\* is the System under construction: T the caller's types (written through
\* t := &types[i]), types the pointers stored so far, typeMap, parseOrder, and
\* the error it stopped at.  `range t.As` visits the entries of the map in an
\* order Go leaves open, so where it returns at an entry whose value is missing
\* t.as holds any part of the entries whose value was found.
RECURSIVE indexTypes(_, _)
indexTypes(s, i) ==
    IF i > Len(s.T) THEN {s}
    ELSE LET t  == s.T[i]
             iv == indexValues(t, 1, EmptyMap)
             found == { n \in DOMAIN t.As : MapGet(iv.values, ToLower(t.As[n])) # Nil }
             as(visited) == [n \in visited |-> iv.values[ToLower(t.As[n])]]
             t1 == [t EXCEPT !.values = iv.values]
             t3 == [t1 EXCEPT !.as = as(found), !.enums = indexEnums(t.Enums, 1, EmptyMap)]
         IN IF iv.Message # ""
            THEN { [s EXCEPT !.T[i] = t1, !.Message = iv.Message] }
            ELSE IF found # DOMAIN t.As
            THEN { [s EXCEPT !.T[i] = [t1 EXCEPT !.as = as(visited)],
                             !.Message = "as using value could not be found"] :
                   visited \in SUBSET found }
            ELSE indexTypes(
                   [s EXCEPT !.T[i] = t3,
                             !.types[i] = i,
                             !.typeMap = MapPut(s.typeMap, t.Name, i),
                             !.parseOrder = IF t.Parse # "nil" \/ Len(t.Enums) > 0
                                            THEN Append(s.parseOrder, i)
                                            ELSE s.parseOrder],
                   i + 1)

\* System.Type
SystemType(s, name) == MapGet(s.typeMap, name)

\* The values of a type that its values map still holds.
Mapped(t) == { t.values[key] : key \in DOMAIN t.values }

\* The types `range sys.typeMap` visits.
TypesMapped(s) == { s.typeMap[n] : n \in DOMAIN s.typeMap }

\* The second loop of NewSystem returns an error at value k of type i: the type
\* of the Value or of a Parameter is not registered.  Its test for a parameter
\* reads the Value's Generic flag.
Fails(s, i, k) ==
    LET v == s.T[i].Values[k] IN
      /\ ~v.Generic
      /\ \/ SystemType(s, v.Type) = Nil
         \/ \E j \in DOMAIN v.Parameters : SystemType(s, v.Parameters[j].Type) = Nil

\* The second loop of NewSystem returns an error.
Unresolved(s) ==
    \E i \in TypesMapped(s) : \E k \in Mapped(s.T[i]) : Fails(s, i, k)

\* v.valueType = sys.Type(v.Type) done for the values visited[i] of each type i.
resolve(s, visited) ==
    [s EXCEPT !.T = [i \in DOMAIN s.T |->
        [s.T[i] EXCEPT !.valueType = [k \in DOMAIN s.T[i].Values |->
            IF k \in visited[i] THEN SystemType(s, s.T[i].Values[k].Type) ELSE Nil]]]]

\* The second loop of NewSystem: the Systems it can leave.  It ranges over
\* sys.typeMap and over t.values, two maps, in an order Go leaves open, and
\* returns at the first value that fails: before value k of type i it has
\* visited any of the types without a failing value, and any of the values of
\* type i that do not fail.  With no failing value it visits every value the
\* maps hold.
resolveTypes(s) ==
    IF ~Unresolved(s)
    THEN { resolve(s, [h \in DOMAIN s.T |->
                         IF h \in TypesMapped(s) THEN Mapped(s.T[h]) ELSE {}]) }
    ELSE UNION { UNION { { resolve(s, [h \in DOMAIN s.T |->
                                        IF h = i THEN before \cup {k}
                                        ELSE IF h \in done THEN Mapped(s.T[h]) ELSE {}]) :
                           done \in SUBSET { h \in TypesMapped(s) \ {i} :
                                               \A j \in Mapped(s.T[h]) : ~Fails(s, h, j) },
                           before \in SUBSET { j \in Mapped(s.T[i]) : ~Fails(s, i, j) } } :
                         k \in { k \in Mapped(s.T[i]) : Fails(s, i, k) } } :
                 i \in TypesMapped(s) }

\* Parameter.ParameterType() after NewSystem.  The second loop assigns
\* p.parameterType on p, the copy `for _, p := range v.Parameters` makes, so the
\* Parameter in the Value's slice keeps its nil parameterType.
ParameterType(s, param) == Nil

\* The less function given to sort.Slice, on two *Type.
parseOrderLess(s, a, b) ==
    LET ta == s.T[a]
        tb == s.T[b]
    IN IF ta.ParseOrder # tb.ParseOrder THEN ta.ParseOrder > tb.ParseOrder
       ELSE IF (ta.Parse # "nil") # (tb.Parse # "nil") THEN ta.Parse # "nil"
       ELSE Len(ta.Name) > Len(tb.Name)

\* An insertion sort that also sinks an element past the ones it ties with.
RECURSIVE sinkPastTies(_, _, _)
sinkPastTies(s, order, j) ==
    IF j > 1 /\ ~parseOrderLess(s, order[j - 1], order[j])
    THEN sinkPastTies(s, [order EXCEPT ![j] = order[j - 1], ![j - 1] = order[j]], j - 1)
    ELSE order

\* sort.Slice on a slice this short (at most 6 elements with any Go release, 12
\* since Go 1.19) is the insertion sort of package sort: element i sinks while
\* it is less than the one before it, so elements that tie keep their order.
RECURSIVE sink(_, _, _)
sink(s, order, j) ==
    IF j > 1 /\ parseOrderLess(s, order[j], order[j - 1])
    THEN sink(s, [order EXCEPT ![j] = order[j - 1], ![j - 1] = order[j]], j - 1)
    ELSE order

RECURSIVE insertionSort(_, _, _)
insertionSort(s, order, i) ==
    IF i > Len(order) THEN order
    ELSE insertionSort(s, sink(s, order, i), i + 1)

\* NewSystem(types): the Systems it can return, each with its error message
\* ("" for nil); more than one only where a loop over a map returns early.
NewSystem(ts) ==
    LET s0 == [T |-> [i \in DOMAIN ts |-> Unindexed(ts[i])],
               types |-> [i \in DOMAIN ts |-> Nil],
               typeMap |-> EmptyMap,
               parseOrder |-> <<>>,
               Message |-> ""]
        sorted(s2) == [s2 EXCEPT !.parseOrder = insertionSort(s2, s2.parseOrder, 2)]
        resolved(s1) ==
            IF s1.Message # "" THEN {s1}
            ELSE IF Unresolved(s1)
            THEN { [s2 EXCEPT !.Message = "could not be found"] : s2 \in resolveTypes(s1) }
            ELSE { sorted(s2) : s2 \in resolveTypes(s1) }
    IN UNION { resolved(s1) : s1 \in indexTypes(s0, 1) }

-----------------------------------------------------------------------------
(* Type and Value methods *)

\* A Go int that a count of the model is compared with: n, or math.MaxInt
\* (1<<63 - 1, which is more than every integer TLC holds) when max is TRUE.
GoInt(n) == [max |-> FALSE, n |-> n]

\* math.MaxInt
MaxInt == [max |-> TRUE, n |-> 0]

\* i < m and i > m for an integer i of the model and a Go int m.
Below(i, m) == m.max \/ i < m.n
Above(i, m) == ~m.max /\ i > m.n

\* A Type.Value that looks the path up as it is written.
TypeValueAsWritten(t, path) == MapGet(t.values, path)

\* Type.Value(path): the index of the value, Nil when the map has none.
TypeValue(t, path) == MapGet(t.values, ToLower(path))

\* Type.AsValue(other)
AsValue(t, other) == MapGet(t.as, other)

\* Type.ParseInput(input): [ok, value]
ParseInput(t, input) ==
    IF t.Parse = "nil"
    THEN IF ToLower(input) \in DOMAIN t.enums
         THEN [ok |-> TRUE, value |-> <<"enum", t.enums[ToLower(input)]>>]
         ELSE [ok |-> FALSE, value |-> <<>>]
    ELSE TypeParse(t.Parse, input)

\* Value.MaxParameters
MaxParameters(v) ==
    IF v.Variadic /\ Len(v.Parameters) > 0 THEN MaxInt ELSE GoInt(Len(v.Parameters))

\* Value.MinParameters: min = i + 1 for every parameter i that has a Default.
RECURSIVE minParametersFrom(_, _, _)
minParametersFrom(v, i, min) ==
    IF i > Len(v.Parameters) THEN min
    ELSE minParametersFrom(v, i + 1, IF v.Parameters[i].Default # <<>> THEN i ELSE min)

MinParameters(v) == minParametersFrom(v, 1, 0)

\* Value.Parameter(i), i counted from 0 as in the source: the index (from 1) of
\* the parameter in v.Parameters, Nil for no parameter.
ValueParameter(v, i) ==
    IF ~Below(i, MaxParameters(v)) \/ i < 0 THEN Nil
    ELSE IF i >= Len(v.Parameters) THEN Len(v.Parameters)
    ELSE i + 1

\* getBaseType, on a slice of *Type
RECURSIVE firstBase(_, _, _)
firstBase(s, ts, i) ==
    IF i > Len(ts) THEN Nil
    ELSE IF \A k \in DOMAIN ts :
               \/ s.T[ts[i]].Name = s.T[ts[k]].Name
               \/ AsValue(s.T[ts[k]], s.T[ts[i]].Name) # Nil
         THEN ts[i]
         ELSE firstBase(s, ts, i + 1)

getBaseType(s, ts) ==
    IF Len(ts) = 0 THEN Nil
    ELSE IF Len(ts) = 1 THEN ts[1]
    ELSE IF \A i \in 2..Len(ts) : ts[i] = ts[1] THEN ts[1]
    ELSE firstBase(s, ts, 1)

-----------------------------------------------------------------------------
(* Expr, Position, ParseError *)

Position(index, line, column) == [Index |-> index, Line |-> line, Column |-> column]

Expr(token, constant, start, end) ==
    [Token |-> token, Start |-> start, End |-> end, Constant |-> constant,
     Parsed |-> NilParsed, Value |-> NilValue, ParentType |-> Nil, Type |-> Nil,
     Arguments |-> <<>>, Next |-> Nil, Prev |-> Nil, Parent |-> Nil,
     Parameter |-> NilParameter]

\* A ParseError: Message is the format of the message, N the number it prints,
\* Expr the node it carries (whose token it prints).
NewParseError(expr, message, n) ==
    [Message |-> message, Expr |-> expr, N |-> n, Parameter |-> NilParameter]

NoError == NewParseError(Nil, "", 0)

\* A run-time panic of the Go program, which no caller receives as an error.
Panic(message) == NewParseError(Nil, message, 0)

NilDereference == "panic: invalid memory address or nil pointer dereference"
IndexOutOfRange == "panic: index out of range"

IsPanic(e) == e.Message \in {NilDereference, IndexOutOfRange}

ErrNoTypes == NewParseError(Nil, "undefined types", 0)
ErrNoExpression == NewParseError(Nil, "undefined expression", 0)
ErrNoRoot == NewParseError(Nil, "undefined root type", 0)

\* Expr.Last
RECURSIVE Last(_, _)
Last(ns, e) == IF ns[e].Next = Nil THEN e ELSE Last(ns, ns[e].Next)

\* Expr.Chain
RECURSIVE Chain(_, _)
Chain(ns, e) == IF e = Nil THEN <<>> ELSE <<e>> \o Chain(ns, ns[e].Next)

\* Expr.TypeOneOf, on a slice of *Type
TypeOneOf(s, ns, e, ts) ==
    IF e = Nil \/ ns[e].Type = Nil THEN Len(ts) = 0
    ELSE \E i \in DOMAIN ts : s.T[ts[i]].Name = s.T[ns[e].Type].Name

-----------------------------------------------------------------------------
(* The parser.  A parser state is the struct's fields; the heap of nodes    *)
(* travels with it.  Indices into the input count from 0 as in the source,  *)
(* the character at index i being e[i + 1].                                 *)

newParser(e) ==
    [parents |-> <<>>, prev |-> Nil, first |-> Nil, e |-> e, n |-> Len(e),
     i |-> 0, lineReset |-> 0, line |-> 0]

hasData(q) == q.i < q.n

position(q) == Position(q.i, q.line, q.i - q.lineReset)

\* parser.newExpr: [p, nodes, expr, err]; err is a panic when the node opens an
\* argument of a nil parent.
newExpr(q, ns, e) ==
    LET id  == Len(ns) + 1
        ns1 == Append(ns, [e EXCEPT !.Prev = q.prev])
        ns2 == IF q.prev # Nil THEN [ns1 EXCEPT ![q.prev].Next = id] ELSE ns1
        q1  == [q EXCEPT !.first = IF q.first = Nil THEN id ELSE q.first, !.prev = id]
    IN IF Len(q.parents) > 0 /\ q.prev = Nil
       THEN LET parent == q.parents[Len(q.parents)] IN
            IF parent = Nil
            THEN [p |-> q1, nodes |-> ns2, expr |-> id, err |-> Panic(NilDereference)]
            ELSE [p |-> q1,
                  nodes |-> [ns2 EXCEPT ![parent].Arguments = Append(@, id),
                                        ![id].Parent = parent],
                  expr |-> id, err |-> NoError]
       ELSE [p |-> q1, nodes |-> ns2, expr |-> id, err |-> NoError]

\* The loop of parser.parseToken: the token read from index i on.
RECURSIVE scanToken(_, _, _, _)
scanToken(e, i, word, out) ==
    IF i < Len(e) /\ ~(e[i + 1] \in stopChars \/ (word /\ e[i + 1] \notin wordChars))
    THEN scanToken(e, i + 1, word, Append(out, e[i + 1]))
    ELSE [i |-> i, out |-> out]

\* parser.parseToken
parseToken(q, ns) ==
    LET word  == q.e[q.i + 1] \in wordChars
        start == position(q)
        made(sc, q1) == newExpr(q1, ns, Expr(sc.out, FALSE, start, position(q1)))
        scanned(sc)  == made(sc, [q EXCEPT !.i = sc.i])
    IN scanned(scanToken(q.e, q.i, word, <<>>))

\* The loop of parser.parseConstant from index i on: closed tells whether the
\* terminating quote was found (i is then the index after it); panic, whether
\* p.e[p.i] was read past the end of the input.
RECURSIVE scanConstant(_, _, _, _, _)
scanConstant(e, i, end, escaped, out) ==
    IF ~(i < Len(e)) THEN [i |-> i, out |-> out, closed |-> FALSE, panic |-> FALSE]
    ELSE IF i + 1 >= Len(e) THEN [i |-> i + 1, out |-> out, closed |-> FALSE, panic |-> TRUE]
    ELSE LET c == e[i + 2]
             b == IF escaped
                  THEN CASE c = "n" -> "\n" [] c = "r" -> "\r" [] c = "t" -> "\t" [] OTHER -> c
                  ELSE c
         IN IF c = "\\" /\ ~escaped THEN scanConstant(e, i + 1, end, TRUE, out)
            ELSE IF b = end /\ ~escaped
            THEN [i |-> i + 2, out |-> out, closed |-> TRUE, panic |-> FALSE]
            ELSE scanConstant(e, i + 1, end, FALSE, Append(out, b))

\* parser.parseConstant
parseConstant(q, ns) ==
    LET end   == q.e[q.i + 1]
        start == position(q)
        made(sc, q1) ==
            IF sc.panic
            THEN [p |-> q1, nodes |-> ns, expr |-> Nil, err |-> Panic(IndexOutOfRange)]
            ELSE IF sc.closed
            THEN newExpr(q1, ns, Expr(sc.out, TRUE, start, position(q1)))
            ELSE [p |-> q1, nodes |-> ns, expr |-> Nil,
                  err |-> NewParseError(Nil, "quoted constant did not have a terminating quote", 0)]
        scanned(sc) == made(sc, [q EXCEPT !.i = sc.i])
    IN scanned(scanConstant(q.e, q.i, end, FALSE, <<>>))

\* The loop of parser.parseExpr.  st is [p, nodes, expr, err, searching,
\* returned]; returned tells that the function returned from inside the loop.
RECURSIVE searchExpr(_)
searchExpr(st) ==
    IF ~st.searching THEN st
    ELSE LET q == st.p
             b == q.e[q.i + 1]
             more(q1) == [st EXCEPT !.p = q1, !.searching = q1.i < q1.n]
             found(r) == [p |-> r.p, nodes |-> r.nodes, expr |-> r.expr, err |-> r.err,
                          searching |-> FALSE, returned |-> IsPanic(r.err)]
         IN IF b = "\n"
            THEN searchExpr(more([q EXCEPT !.i = q.i + 1, !.line = q.line + 1,
                                           !.lineReset = q.i + 1]))
            ELSE IF b \in spaceChars
            THEN searchExpr(more([q EXCEPT !.i = q.i + 1]))
            ELSE IF b = "("
            THEN searchExpr(more([q EXCEPT !.parents = Append(q.parents, q.prev),
                                           !.prev = Nil, !.i = q.i + 1]))
            ELSE IF b = ")"
            THEN IF Len(q.parents) = 0
                 THEN [st EXCEPT !.err = NewParseError(st.expr, "unexpected )", 0),
                                 !.searching = FALSE, !.returned = TRUE]
                 ELSE searchExpr(more([q EXCEPT !.prev = q.parents[Len(q.parents)],
                                                !.parents = SubSeq(q.parents, 1, Len(q.parents) - 1),
                                                !.i = q.i + 1]))
            ELSE IF b = ","
            THEN searchExpr(more([q EXCEPT !.prev = Nil, !.i = q.i + 1]))
            ELSE IF b = "."
            THEN searchExpr(more([q EXCEPT !.i = q.i + 1]))
            ELSE found(IF b \in {"\"", "'"} THEN parseConstant(q, st.nodes)
                                              ELSE parseToken(q, st.nodes))

\* parser.parseExpr: [p, nodes, expr, err]
parseExpr(q, ns) ==
    LET placeholder(r, e1) ==
            IF IsPanic(r.err) THEN r
            ELSE [r EXCEPT !.err = IF e1 = NoError
                                   THEN NewParseError(r.expr,
                                          "expression expecting a value but found nothing", 0)
                                   ELSE e1]
        finish(st, q1, e1) ==
            IF st.returned
            THEN [p |-> q1, nodes |-> st.nodes, expr |-> st.expr, err |-> st.err]
            ELSE IF q1.i > 0 /\ q1.e[q1.i] \in nextChars
            THEN placeholder(newExpr(q1, st.nodes,
                                     Expr(<<>>, FALSE, position(q1), position(q1))), e1)
            ELSE [p |-> q1, nodes |-> st.nodes, expr |-> st.expr, err |-> e1]
        missing(st, q1) ==
            finish(st, q1,
                   IF q1.i = q1.n /\ st.err = NoError /\ Len(q1.parents) # 0
                   THEN NewParseError(st.expr, "expression missing terminating parenthesis",
                                      Len(q1.parents))
                   ELSE st.err)
        searched(st) == missing(st, st.p)
    IN searched(searchExpr([p |-> q, nodes |-> ns, expr |-> Nil, err |-> NoError,
                            searching |-> q.i < q.n, returned |-> FALSE]))

-----------------------------------------------------------------------------
(* The linker.  Every operator returns the heap it leaves and the error it  *)
(* returns.                                                                 *)

\* The Value and the Parameter a pointer stands for.
ValueAt(s, v) == s.T[v.t].Values[v.k]
ParameterAt(s, param) == s.T[param.t].Values[param.k].Parameters[param.j]

Min(S) == CHOOSE x \in S : \A y \in S : x <= y

\* A conversion loop that goes on after its first conversion: every expected
\* type the (new) last node has an As entry for appends one more node.
RECURSIVE convertEach(_, _, _, _, _)
convertEach(s, ns, last, expectedTypes, i) ==
    IF i > Len(expectedTypes) THEN [nodes |-> ns, last |-> last, err |-> NoError]
    ELSE LET from == ns[last].Type
             k    == AsValue(s.T[from], s.T[expectedTypes[i]].Name)
             convert == [t |-> from, k |-> k]
             id   == Len(ns) + 1
             next == [Expr(ValueAt(s, convert).Path, FALSE,
                           Position(0, 0, 0), Position(0, 0, 0))
                        EXCEPT !.Type = expectedTypes[i], !.Value = convert,
                               !.Prev = last, !.ParentType = from]
         IN IF k = Nil THEN convertEach(s, ns, last, expectedTypes, i + 1)
            ELSE convertEach(s, Append([ns EXCEPT ![last].Next = id], next), id,
                             expectedTypes, i + 1)

convertToExpectedNoBreak(s, ns, last, expectedTypes) ==
    IF last = Nil \/ Len(expectedTypes) = 0 \/ TypeOneOf(s, ns, last, expectedTypes)
    THEN [nodes |-> ns, last |-> last, err |-> NoError]
    ELSE IF ns[last].Type = Nil
    THEN [nodes |-> ns, last |-> last, err |-> Panic(NilDereference)]
    ELSE convertEach(s, ns, last, expectedTypes, 1)

\* System.convertToExpected: [nodes, last, err]; err is a panic when the type of
\* last is nil.
convertToExpected(s, ns, last, expectedTypes) ==
    IF last = Nil \/ Len(expectedTypes) = 0 \/ TypeOneOf(s, ns, last, expectedTypes)
    THEN [nodes |-> ns, last |-> last, err |-> NoError]
    ELSE IF ns[last].Type = Nil
    THEN [nodes |-> ns, last |-> last, err |-> Panic(NilDereference)]
    ELSE LET from  == ns[last].Type
             found == { i \in DOMAIN expectedTypes :
                          AsValue(s.T[from], s.T[expectedTypes[i]].Name) # Nil }
         IN IF found = {} THEN [nodes |-> ns, last |-> last, err |-> NoError]
            ELSE LET expectedType == expectedTypes[Min(found)]
                     convert == [t |-> from, k |-> AsValue(s.T[from], s.T[expectedType].Name)]
                     id   == Len(ns) + 1
                     next == [Expr(ValueAt(s, convert).Path, FALSE,
                                   Position(0, 0, 0), Position(0, 0, 0))
                                EXCEPT !.Type = expectedType, !.Value = convert,
                                       !.Prev = last, !.ParentType = from]
                 IN [nodes |-> Append([ns EXCEPT ![last].Next = id], next),
                     last |-> id, err |-> NoError]

\* System.setConstant: [nodes, err]
RECURSIVE tryParsers(_, _, _, _, _)
tryParsers(s, ns, current, tryTypes, i) ==
    IF i > Len(tryTypes) THEN ns
    ELSE LET parsed(r) ==
                 IF r.ok
                 THEN [ns EXCEPT ![current].Type = tryTypes[i],
                                 ![current].Constant = TRUE,
                                 ![current].Parsed = r.value]
                 ELSE tryParsers(s, ns, current, tryTypes, i + 1)
         IN parsed(ParseInput(s.T[tryTypes[i]], ns[current].Token))

setConstant(s, ns, current, tryTypes, required) ==
    LET parsed == \E i \in DOMAIN tryTypes : ParseInput(s.T[tryTypes[i]], ns[current].Token).ok IN
    [nodes |-> tryParsers(s, ns, current, tryTypes, 1),
     err |-> IF ~parsed /\ required
             THEN NewParseError(current, "constant did not match expected type(s)", 0)
             ELSE NoError]

\* Value.GetType for a generic Value reads arg.Type of each argument given for
\* a generic parameter: arg is the head of the argument's chain.
RECURSIVE genericTypes(_, _, _)
genericTypes(s, ns, args) ==
    IF args = <<>> THEN <<>>
    ELSE (IF ns[Head(args)].Type # Nil /\ ParameterAt(s, ns[Head(args)].Parameter).Generic
          THEN <<ns[Head(args)].Type>> ELSE <<>>) \o genericTypes(s, ns, Tail(args))

GetType(s, ns, v, e) ==
    IF ~ValueAt(s, v).Generic THEN s.T[v.t].valueType[v.k]
    ELSE getBaseType(s, genericTypes(s, ns, ns[e].Arguments))

\* The loop of System.link that converts the generic arguments.
RECURSIVE convertGeneric(_, _, _, _, _)
convertGeneric(s, ns, args, i, type) ==
    IF i > Len(args) THEN [nodes |-> ns, err |-> NoError]
    ELSE IF ParameterAt(s, ns[args[i]].Parameter).Generic
    THEN LET converted(r) ==
                 IF r.err # NoError THEN [nodes |-> r.nodes, err |-> r.err]
                 ELSE convertGeneric(s, r.nodes, args, i + 1, type)
         IN converted(convertToExpected(s, ns, Last(ns, args[i]), <<type>>))
    ELSE convertGeneric(s, ns, args, i + 1, type)

RECURSIVE linkFrom(_, _, _, _, _, _, _)
RECURSIVE linkArguments(_, _, _, _)
RECURSIVE linkGiven(_, _, _, _, _)
RECURSIVE linkDefaults(_, _, _, _)

\* System.link
link(s, ns, e, expectedTypes, root) == linkFrom(s, ns, e, root, Nil, expectedTypes, root)

\* The loop of System.link at node current, and what follows the loop.
linkFrom(s, ns, current, parentType, parent, expectedTypes, root) ==
    IF current = Nil
    THEN LET converted(r) ==
                 IF r.err # NoError THEN [nodes |-> r.nodes, err |-> r.err]
                 ELSE IF r.last # Nil /\ Len(expectedTypes) > 0
                         /\ ~TypeOneOf(s, r.nodes, r.last, expectedTypes)
                 THEN [nodes |-> r.nodes,
                       err |-> NewParseError(r.last, "expected type(s) but was given instead", 0)]
                 ELSE [nodes |-> r.nodes, err |-> NoError]
         IN converted(convertToExpected(s, ns, parent, expectedTypes))
    ELSE LET currentValue == TypeValue(s.T[parentType], ns[current].Token)
             ns1 == [ns EXCEPT ![current].ParentType = parentType]
             step(nsN) == linkFrom(s, nsN, nsN[current].Next, nsN[current].Type, current,
                                   expectedTypes, root)
         IN IF currentValue # Nil /\ ~ns1[current].Constant
            THEN LET v   == [t |-> parentType, k |-> currentValue]
                     ns2 == [ns1 EXCEPT ![current].Type = s.T[parentType].valueType[currentValue],
                                        ![current].Value = v]
                     generic(cg) == IF cg.err # NoError THEN cg ELSE step(cg.nodes)
                     typed(type, ns3) ==
                         IF type = Nil
                         THEN [nodes |-> ns3,
                               err |-> NewParseError(current,
                                         "generic type could not be determined", 0)]
                         ELSE generic(convertGeneric(s, ns3, ns3[current].Arguments, 1, type))
                     resolved(la, type) == typed(type, [la.nodes EXCEPT ![current].Type = type])
                     linked(la) ==
                         IF la.err # NoError THEN la
                         ELSE IF ValueAt(s, v).Generic
                         THEN resolved(la, GetType(s, la.nodes, v, current))
                         ELSE step(la.nodes)
                 IN linked(linkArguments(s, ns2, current, root))
            ELSE IF ns1[current].Next = Nil /\ Len(expectedTypes) > 0
            THEN LET lone(sc) == IF sc.err # NoError THEN sc ELSE step(sc.nodes)
                 IN lone(setConstant(s, ns1, current, expectedTypes, TRUE))
            ELSE IF ns1[current].Prev = Nil
            THEN LET first(sc) ==
                         IF sc.nodes[current].Type = Nil
                         THEN [nodes |-> sc.nodes,
                               err |-> NewParseError(current, "type could not be determined", 0)]
                         ELSE step(sc.nodes)
                 IN first(setConstant(s, ns1, current, s.parseOrder, FALSE))
            ELSE [nodes |-> ns1, err |-> NewParseError(current, "invalid value", 0)]

\* System.linkArguments
linkArguments(s, ns, current, root) ==
    LET v        == ValueAt(s, ns[current].Value)
        argCount == Len(ns[current].Arguments)
        defaults(given) ==
            IF given.err # NoError THEN given
            ELSE linkDefaults(s, given.nodes, current, argCount)
        counted(argMin, argMax) ==
            IF argCount < argMin
            THEN [nodes |-> ns,
                  err |-> NewParseError(current, "expects at least parameters", argMin)]
            ELSE IF Above(argCount, argMax)
            THEN [nodes |-> ns,
                  err |-> NewParseError(current, "expects no more than parameters", argMax.n)]
            ELSE defaults(linkGiven(s, ns, current, 0, root))
    IN counted(MinParameters(v), MaxParameters(v))

\* The first loop of linkArguments, from argument i (counted from 0) on.
linkGiven(s, ns, current, i, root) ==
    IF i >= Len(ns[current].Arguments) THEN [nodes |-> ns, err |-> NoError]
    ELSE LET v   == ns[current].Value
             arg == ns[current].Arguments[i + 1]
             linked(r, param) ==
                 IF r.err # NoError THEN r
                 ELSE linkGiven(s, [r.nodes EXCEPT ![arg].Parameter = param], current, i + 1, root)
             given(param) ==
                 linked(link(s, ns, arg,
                             IF ParameterType(s, param) # Nil
                             THEN <<ParameterType(s, param)>> ELSE <<>>,
                             root),
                        param)
         IN given([t |-> v.t, k |-> v.k, j |-> ValueParameter(ValueAt(s, v), i)])

\* The second loop of linkArguments, from parameter i (counted from 0) on.
linkDefaults(s, ns, current, i) ==
    LET v == ns[current].Value IN
    IF i >= Len(ValueAt(s, v).Parameters) THEN [nodes |-> ns, err |-> NoError]
    ELSE LET default(param, decl, parsed) ==
                 IF ~parsed.ok
                 THEN [nodes |-> ns,
                       err |-> [NewParseError(current, "parsing is not supported", 0)
                                  EXCEPT !.Parameter = param]]
                 ELSE LET id  == Len(ns) + 1
                          arg == [Expr(decl.Default[1], TRUE, Position(0, 0, 0), Position(0, 0, 0))
                                    EXCEPT !.Type = ParameterType(s, param),
                                           !.Parameter = param,
                                           !.Parent = current,
                                           !.Parsed = parsed.value]
                      IN linkDefaults(s,
                                      Append([ns EXCEPT ![current].Arguments = Append(@, id)], arg),
                                      current, i + 1)
             missing(param, decl) ==
                 IF decl.Default = <<>>
                 THEN [nodes |-> ns,
                       err |-> [NewParseError(current,
                                  "parameter was not given a value or a default value", i)
                                  EXCEPT !.Parameter = param]]
                 ELSE IF ParameterType(s, param) = Nil
                 THEN [nodes |-> ns, err |-> Panic(NilDereference)]
                 ELSE default(param, decl,
                              ParseInput(s.T[ParameterType(s, param)], decl.Default[1]))
             at(param) == missing(param, ParameterAt(s, param))
         IN at([t |-> v.t, k |-> v.k, j |-> ValueParameter(ValueAt(s, v), i)])

-----------------------------------------------------------------------------
(* Expr.String: [out, err]; err is a panic when c.Token[0] is read of an    *)
(* empty token.                                                             *)

RECURSIVE String(_, _)
RECURSIVE joinArguments(_, _, _)

\* The loop over c.Arguments: the arguments' strings joined by commas.
joinArguments(ns, args, i) ==
    IF i > Len(args) THEN [out |-> <<>>, err |-> NoError]
    ELSE LET a    == String(ns, args[i])
             rest == joinArguments(ns, args, i + 1)
         IN IF a.err # NoError THEN a
            ELSE IF rest.err # NoError THEN rest
            ELSE [out |-> (IF i > 1 THEN <<",">> ELSE <<>>) \o a.out \o rest.out,
                  err |-> NoError]

String(ns, c) ==
    IF c = Nil THEN [out |-> <<>>, err |-> NoError]
    ELSE IF ns[c].Prev # Nil /\ ns[c].Token = <<>>
    THEN [out |-> <<>>, err |-> Panic(IndexOutOfRange)]
    ELSE LET dot   == IF ns[c].Prev # Nil /\ ns[c].Token[1] \in wordChars THEN <<".">> ELSE <<>>
             token == IF ns[c].Constant
                      THEN <<"'">> \o EscapeQuotes(ns[c].Token) \o <<"'">>
                      ELSE ns[c].Token
             args  == joinArguments(ns, ns[c].Arguments, 1)
             rest  == String(ns, ns[c].Next)
         IN IF args.err # NoError THEN args
            ELSE IF rest.err # NoError THEN rest
            ELSE [out |-> dot \o token
                          \o (IF Len(ns[c].Arguments) > 0
                              THEN <<"(">> \o args.out \o <<")">> ELSE <<>>)
                          \o rest.out,
                  err |-> NoError]

-----------------------------------------------------------------------------
(* Compile.  A compiled expression (CE) of the model is the term of the call *)
(* that made it, <<compiler, node, root, previous, arguments>>; a Compiler   *)
(* is the record of what it does ("ok" returns the term of its call, "fail"  *)
(* returns an error) and of the type name and path it was registered under.  *)
(* Errors are messages, "" for nil.                                          *)

\* The zero value of CE.
NilCE == <<>>

\* What Compile had returned before the caller called it.
NotCompiled == [source |-> <<>>, out |-> NilCE, err |-> "", log |-> <<>>]

\* The initial CE of the caller's sources.
Seed == <<"seed">>

\* A Compiler, and the nil Compiler.
Compiler(does, name, path) == [does |-> does, of |-> <<name, path>>]
NoCompiler == Compiler("", "", <<>>)

\* Compiler[CE] called: [out, err]
Call(compiler, e, root, previous, arguments) ==
    IF compiler.does = "fail" THEN [out |-> NilCE, err |-> "compiler failed"]
    ELSE [out |-> <<compiler, e, root, previous, arguments>>, err |-> ""]

\* A GetValueCompiler that reads the path off the node's token.
GetValueCompilerOfToken(s, ns, source, e) ==
    LET parent == IF ns[e].Prev # Nil THEN ns[ns[e].Prev].Type ELSE ns[e].ParentType
        valueCompiler(typeCompiler) ==
            IF ToLower(ns[e].Token) \notin DOMAIN typeCompiler
            THEN [compiler |-> NoCompiler, err |-> "no value specified"]
            ELSE [compiler |-> typeCompiler[ToLower(ns[e].Token)], err |-> ""]
    IN IF parent = Nil THEN [compiler |-> NoCompiler, err |-> NilDereference]
       ELSE IF s.T[parent].Name \notin DOMAIN source.TypeCompilers
       THEN [compiler |-> NoCompiler, err |-> "no value compilers specified"]
       ELSE valueCompiler(source.TypeCompilers[s.T[parent].Name])

\* CompileSourceLookup.GetValueCompiler: [compiler, err]
GetValueCompiler(s, ns, source, e) ==
    LET parent == IF ns[e].Prev # Nil THEN ns[ns[e].Prev].Type ELSE ns[e].ParentType
        valueCompiler(typeCompiler) ==
            IF ns[e].Value = NilValue THEN [compiler |-> NoCompiler, err |-> NilDereference]
            ELSE IF ToLower(ValueAt(s, ns[e].Value).Path) \notin DOMAIN typeCompiler
            THEN [compiler |-> NoCompiler, err |-> "no value specified"]
            ELSE [compiler |-> typeCompiler[ToLower(ValueAt(s, ns[e].Value).Path)], err |-> ""]
    IN IF parent = Nil THEN [compiler |-> NoCompiler, err |-> NilDereference]
       ELSE IF s.T[parent].Name \notin DOMAIN source.TypeCompilers
       THEN [compiler |-> NoCompiler, err |-> "no value compilers specified"]
       ELSE valueCompiler(source.TypeCompilers[s.T[parent].Name])

\* What the source was asked: a lookup of a compiler or a call of one, for node
\* Expr, with what it was given and what it returned.
Asked(op, compiler, e, root, previous, arguments, r) ==
    [op |-> op, compiler |-> compiler, Expr |-> e, Root |-> root, Previous |-> previous, Arguments |-> arguments,
     out |-> r.out, err |-> r.err]

RECURSIVE compileChain(_, _, _, _, _, _, _)
RECURSIVE compileArguments(_, _, _, _, _, _)
RECURSIVE Compile(_, _, _, _, _)

\* The loop `for i, arg := range current.Arguments` from argument i on; st is
\* [args, err, log] so far.
compileArguments(s, ns, source, arguments, i, st) ==
    IF i > Len(arguments) THEN st
    ELSE LET compiledArg(r) ==
                 IF r.err # ""
                 THEN [args |-> Append(st.args, r.out), err |-> r.err, log |-> r.log]
                 ELSE compileArguments(s, ns, source, arguments, i + 1,
                        [args |-> Append(st.args, r.out), err |-> "", log |-> r.log])
         IN compiledArg(Compile(s, ns, source, arguments[i], st.log))

\* A Compile loop that hands every handler the initial value as previous.
compileChainFromSeed(s, ns, source, root, current, last, log) ==
    IF current = Nil THEN [out |-> last, err |-> "", log |-> log]
    ELSE IF ns[current].Constant
    THEN LET returned(r) ==
                 IF r.err # ""
                 THEN [out |-> r.out, err |-> r.err,
                       log |-> Append(log, Asked("constant", source.ConstantCompiler,
                                                 current, root, last, <<>>, r))]
                 ELSE compileChain(s, ns, source, root, ns[current].Next, r.out,
                          Append(log, Asked("constant", source.ConstantCompiler,
                                            current, root, last, <<>>, r)))
         IN returned(Call(source.ConstantCompiler, current, root, last, <<>>))
    ELSE LET called(r, vc, a) ==
                 IF r.err # ""
                 THEN [out |-> r.out, err |-> r.err,
                       log |-> Append(a.log, Asked("call", vc.compiler, current, root,
                                                   source.Initial, a.args, r))]
                 ELSE compileChain(s, ns, source, root, ns[current].Next, r.out,
                          Append(a.log, Asked("call", vc.compiler, current, root,
                                              source.Initial, a.args, r)))
             withArguments(vc, a) ==
                 IF a.err # "" THEN [out |-> last, err |-> a.err, log |-> a.log]
                 ELSE called(Call(vc.compiler, current, root, source.Initial, a.args), vc, a)
             looked(vc) ==
                 IF vc.err # ""
                 THEN [out |-> last, err |-> vc.err,
                       log |-> Append(log, Asked("lookup", vc.compiler, current, root, last, <<>>,
                                                 [out |-> NilCE, err |-> vc.err]))]
                 ELSE withArguments(vc,
                        compileArguments(s, ns, source, ns[current].Arguments, 1,
                          [args |-> <<>>, err |-> "",
                           log |-> Append(log, Asked("lookup", vc.compiler, current, root, last, <<>>,
                                                     [out |-> NilCE, err |-> ""]))]))
         IN looked(GetValueCompiler(s, ns, source, current))

\* The loop `for current != nil` of Compile: [out, err, log], log being the
\* lookups and calls made, in order.
compileChain(s, ns, source, root, current, last, log) ==
    IF current = Nil THEN [out |-> last, err |-> "", log |-> log]
    ELSE IF ns[current].Constant
    THEN LET returned(r) ==
                 IF r.err # ""
                 THEN [out |-> r.out, err |-> r.err,
                       log |-> Append(log, Asked("constant", source.ConstantCompiler,
                                                 current, root, last, <<>>, r))]
                 ELSE compileChain(s, ns, source, root, ns[current].Next, r.out,
                          Append(log, Asked("constant", source.ConstantCompiler,
                                            current, root, last, <<>>, r)))
         IN returned(Call(source.ConstantCompiler, current, root, last, <<>>))
    ELSE LET called(r, vc, a) ==
                 IF r.err # ""
                 THEN [out |-> r.out, err |-> r.err,
                       log |-> Append(a.log, Asked("call", vc.compiler, current, root,
                                                   last, a.args, r))]
                 ELSE compileChain(s, ns, source, root, ns[current].Next, r.out,
                          Append(a.log, Asked("call", vc.compiler, current, root,
                                              last, a.args, r)))
             withArguments(vc, a) ==
                 IF a.err # "" THEN [out |-> last, err |-> a.err, log |-> a.log]
                 ELSE called(Call(vc.compiler, current, root, last, a.args), vc, a)
             looked(vc) ==
                 IF vc.err # ""
                 THEN [out |-> last, err |-> vc.err,
                       log |-> Append(log, Asked("lookup", vc.compiler, current, root, last, <<>>,
                                                 [out |-> NilCE, err |-> vc.err]))]
                 ELSE withArguments(vc,
                        compileArguments(s, ns, source, ns[current].Arguments, 1,
                          [args |-> <<>>, err |-> "",
                           log |-> Append(log, Asked("lookup", vc.compiler, current, root, last, <<>>,
                                                     [out |-> NilCE, err |-> ""]))]))
         IN looked(GetValueCompiler(s, ns, source, current))

\* Compile(e, source), with the log of the calls before it: [out, err, log].
\* `root := e.ParentType` is a nil dereference when e is nil.
Compile(s, ns, source, e, log) ==
    IF e = Nil THEN [out |-> source.Initial, err |-> NilDereference, log |-> log]
    ELSE compileChain(s, ns, source, ns[e].ParentType, e, source.Initial, log)

-----------------------------------------------------------------------------
(* The type declarations of the model: the test system of the repository    *)
(* cut down to four types, with one-character paths.                        *)
(*   context: n: int, b: bool, x: text                                      *)
(*   int:     s: text (the As value for text), >(int): bool, !: int,         *)
(*            d(int, int = "1"): int, m(int...): int, p: bool               *)
(*   bool:    s: text (the As value for text), &(bool...): bool,            *)
(*            ?(generic, generic): generic                                  *)
(*   text:    l: text, e: bool (the As value for bool), =(text): bool;      *)
(*            parses every literal, ParseOrder -1                           *)

NoAliases == <<>>
NoParameters == <<>>
NoDefault == <<>>

TypeInt ==
    Type("int",
         << Value(<<"s">>, NoAliases, "text", FALSE, NoParameters, FALSE),
            Value(<<">">>, NoAliases, "bool", FALSE,
                  << Parameter("value", "int", FALSE, NoDefault) >>, FALSE),
            Value(<<"!">>, NoAliases, "int", FALSE, NoParameters, FALSE),
            Value(<<"d">>, NoAliases, "int", FALSE,
                  << Parameter("a", "int", FALSE, NoDefault),
                     Parameter("c", "int", FALSE, << <<"1">> >>) >>, FALSE),
            Value(<<"m">>, NoAliases, "int", FALSE,
                  << Parameter("values", "int", FALSE, NoDefault) >>, TRUE),
            Value(<<"p">>, NoAliases, "bool", FALSE, NoParameters, FALSE) >>,
         "text" :> <<"s">>, <<>>, "int", 0)

TypeBool ==
    Type("bool",
         << Value(<<"s">>, NoAliases, "text", FALSE, NoParameters, FALSE),
            Value(<<"&">>, NoAliases, "bool", FALSE,
                  << Parameter("values", "bool", FALSE, NoDefault) >>, TRUE),
            Value(<<"?">>, NoAliases, "", TRUE,
                  << Parameter("trueValue", "", TRUE, NoDefault),
                     Parameter("falseValue", "", TRUE, NoDefault) >>, FALSE) >>,
         "text" :> <<"s">>,
         << <<"t","r","u","e">>, <<"f","a","l","s","e">> >>, "bool", 0)

TypeContext ==
    Type("context",
         << Value(<<"n">>, NoAliases, "int", FALSE, NoParameters, FALSE),
            Value(<<"b">>, NoAliases, "bool", FALSE, NoParameters, FALSE),
            Value(<<"x">>, NoAliases, "text", FALSE, NoParameters, FALSE) >>,
         EmptyMap, <<>>, "nil", 0)

TypeText ==
    Type("text",
         << Value(<<"l">>, NoAliases, "text", FALSE, NoParameters, FALSE),
            Value(<<"e">>, NoAliases, "bool", FALSE, NoParameters, FALSE),
            Value(<<"=">>, NoAliases, "bool", FALSE,
                  << Parameter("value", "text", FALSE, NoDefault) >>, FALSE) >>,
         "bool" :> <<"e">>, <<>>, "text", -1)

TestTypes == << TypeInt, TypeBool, TypeContext, TypeText >>

-----------------------------------------------------------------------------
(* The expressions and options the caller may pass. *)

\* The most arguments written in a call.
MaxArgs == 2

Heads == { <<"n">>, <<"b">>, <<"'", "a", "'">>, <<"q">>, <<"n", ".", "p">> }

ArgChains == { <<"1">>, <<"x">>, <<"n">>, <<"n", ".", "p">> }

CallPaths == { <<">">>, <<"?">>, <<".", "d">>, <<".", "m">> }

Tails == { <<>>, <<".", "q">>, <<"!", ".", "!">> }

RECURSIVE Join(_)
Join(args) ==
    IF args = <<>> THEN <<>>
    ELSE IF Len(args) = 1 THEN args[1]
    ELSE args[1] \o <<",">> \o Join(Tail(args))

ArgLists == UNION { [1..k -> ArgChains] : k \in 0..MaxArgs }

Calls == {<<>>} \cup { c \o <<"(">> \o Join(a) \o <<")">> : c \in CallPaths, a \in ArgLists }

\* Other input: blank, ill-formed, or a literal with an escaped backslash.
Others == { <<" ">>, <<"n", ".">>, <<"n", ")">>, <<"(", "n", ")">>, <<"'", "a">>,
            <<"n", ".", "'", "'">>, <<"n", ">", "(", "1">>,
            <<"'", "a", "\\", "\\", "b", "'">>,
            <<"(", "n">>, <<"n", ">", "(">>, <<"n", ".", "m", "(", "1", ",">>,
            <<"n", ".", ".", "p">>, <<"n", ".", "m", "(", ",", "1", ")">>, <<".">>,
            <<" ", "n", " ", ".", "\n", "p", "\t">>, <<"n", ">", " ", "(", "1", ")">>,
            <<"n", ".", " ">>, <<"n", ".", "m", "(", " ", "1", " ", ",", " ", "x", " ", ")">>,
            <<"n", ",", "x">>, <<"n", "\n", ".", "p">>, <<"\n", "\n", "n", ".", "p">>,
            <<"'", "\n", "'", ".", "e">>, <<"n", VerticalTab, ".", "p">>,
            MinInt64Digits }

Expressions == { h \o c \o t : h \in Heads, c \in Calls, t \in Tails } \cup Others

ExpectedTypeLists == { <<>>, <<"text">>, <<"bool", "text">>, <<"text", "bool">>, <<"int">> }

Options(rootType, expectedTypes, expression) ==
    [RootType |-> rootType, ExpectedTypes |-> expectedTypes, Expression |-> expression]

-----------------------------------------------------------------------------
(* The caller: NewSystem, then Parse (its checks, one parseExpr call at a    *)
(* time, then the link and the return), then String() of the chain, then    *)
(* Parse of that string with the same options.                              *)

Init ==
    /\ types = TestTypes
    /\ sys = [T |-> <<>>, types |-> <<>>, typeMap |-> EmptyMap, parseOrder |-> <<>>,
              Message |-> ""]
    /\ sysErr = ""
    /\ opts \in { Options("context", x, e) : x \in ExpectedTypeLists, e \in Expressions }
    /\ p = newParser(<<>>)
    /\ nodes = <<>>
    /\ err = NoError
    /\ linkError = NoError
    /\ strs = <<>>
    /\ round = 1
    /\ compiled = NotCompiled
    /\ pc = "new"

CallNewSystem ==
    /\ pc = "new"
    /\ sys' \in NewSystem(types)
    /\ sysErr' = sys'.Message
    /\ pc' = IF sysErr' = "" THEN "built" ELSE "failed"
    /\ UNCHANGED <<types, opts, p, nodes, err, linkError, strs, round, compiled>>

\* The checks System.Parse makes before it reads the expression.
ParseChecks(s, o) ==
    IF Len(s.types) = 0 THEN ErrNoTypes
    ELSE IF Len(o.Expression) = 0 THEN ErrNoExpression
    ELSE IF o.RootType = "" THEN ErrNoRoot
    ELSE IF SystemType(s, o.RootType) = Nil
    THEN NewParseError(Nil, "undefined root type", 1)
    ELSE IF \E i \in DOMAIN o.ExpectedTypes : SystemType(s, o.ExpectedTypes[i]) = Nil
    THEN NewParseError(Nil, "undefined expected type", 0)
    ELSE NoError

\* System.Parse up to newParser.
ParseStart(o) ==
    /\ err' = ParseChecks(sys, o)
    /\ linkError' = NoError
    /\ opts' = o
    /\ nodes' = <<>>
    /\ p' = newParser(o.Expression)
    /\ pc' = IF err' = NoError THEN "lex" ELSE "parsed"

CallParse ==
    /\ pc = "built"
    /\ ParseStart(opts)
    /\ UNCHANGED <<types, sys, sysErr, strs, round, compiled>>

\* One turn of `for p.hasData() && err == nil { _, err = p.parseExpr() }`.
ParseExprStep ==
    /\ pc = "lex"
    /\ hasData(p) /\ err = NoError
    /\ LET returned(r) ==
               /\ p' = r.p
               /\ nodes' = r.nodes
               /\ err' = r.err
               /\ pc' = IF IsPanic(r.err) THEN "panic" ELSE "lex"
       IN returned(parseExpr(p, nodes))
    /\ UNCHANGED <<types, sys, sysErr, opts, linkError, strs, round, compiled>>

\* The rest of System.Parse: the link of p.first and the return.
LinkAndReturn ==
    /\ pc = "lex"
    /\ ~(hasData(p) /\ err = NoError)
    /\ LET root == SystemType(sys, opts.RootType)
           expectedTypes == [i \in DOMAIN opts.ExpectedTypes |->
                               SystemType(sys, opts.ExpectedTypes[i])]
           returned(r) ==
               /\ nodes' = r.nodes
               /\ linkError' = r.err
               /\ err' = IF IsPanic(r.err) \/ err = NoError THEN r.err ELSE err
               /\ pc' = IF IsPanic(r.err) THEN "panic" ELSE "parsed"
       IN returned(link(sys, nodes, p.first, expectedTypes, root))
    /\ UNCHANGED <<types, sys, sysErr, opts, p, strs, round, compiled>>

\* `for p.hasData() && err == nil { _, err = p.parseExpr() }` run to its end.
RECURSIVE lexAll(_, _, _)
lexAll(q, ns, e) ==
    IF hasData(q) /\ e = NoError
    THEN LET again(r) == lexAll(r.p, r.nodes, r.err)
         IN again(parseExpr(q, ns))
    ELSE [p |-> q, nodes |-> ns, err |-> e]

\* System.Parse as one function of the System and the options: the chain it
\* returns (first, in nodes) and its error.
Parse(s, o) ==
    LET root == SystemType(s, o.RootType)
        expectedTypes == [i \in DOMAIN o.ExpectedTypes |-> SystemType(s, o.ExpectedTypes[i])]
        returned(l, r) ==
            [first |-> l.p.first, nodes |-> r.nodes,
             err |-> IF IsPanic(r.err) \/ l.err = NoError THEN r.err ELSE l.err]
        linked(l) ==
            IF IsPanic(l.err) THEN [first |-> l.p.first, nodes |-> l.nodes, err |-> l.err]
            ELSE returned(l, link(s, l.nodes, l.p.first, expectedTypes, root))
        checked(c) ==
            IF c # NoError THEN [first |-> Nil, nodes |-> <<>>, err |-> c]
            ELSE linked(lexAll(newParser(o.Expression), <<>>, NoError))
    IN checked(ParseChecks(s, o))

\* The caller prints the chain Parse returned.
CallString ==
    /\ pc = "parsed"
    /\ p.first # Nil
    /\ LET returned(r) ==
               /\ strs' = IF IsPanic(r.err) THEN strs ELSE Append(strs, r.out)
               /\ err' = IF IsPanic(r.err) THEN r.err ELSE err
               /\ pc' = IF IsPanic(r.err) THEN "panic" ELSE "printed"
       IN returned(String(nodes, p.first))
    /\ UNCHANGED <<types, sys, sysErr, opts, p, nodes, linkError, round, compiled>>

\* A CompileSourceLookup with a Compiler for every Value of every declared
\* Type under the lowercase of its path, but none for the type without, none
\* for the path without, and a failing one for the path failing; the constant
\* compiler fails when failConstant says so.
Source(ts, without, pathWithout, failing, failConstant) ==
    [Initial |-> Seed,
     TypeCompilers |->
        [name \in { ts[i].Name : i \in DOMAIN ts } \ {without} |->
            [path \in UNION { { ToLower(ts[i].Values[k].Path) : k \in DOMAIN ts[i].Values } :
                               i \in { i \in DOMAIN ts : ts[i].Name = name } }
                        \ {pathWithout} |->
                Compiler(IF path = failing THEN "fail" ELSE "ok", name, path)]],
     ConstantCompiler |-> Compiler(IF failConstant THEN "fail" ELSE "ok", "", <<>>)]

Sources(ts) ==
    { Source(ts, "", <<>>, <<>>, FALSE),
      Source(ts, "int", <<>>, <<>>, FALSE),
      Source(ts, "", <<">">>, <<>>, FALSE),
      Source(ts, "", <<>>, <<">">>, FALSE),
      Source(ts, "", <<>>, <<"n">>, FALSE),
      Source(ts, "", <<>>, <<>>, TRUE) }

\* The caller compiles the chain that Parse returned without an error.
CallCompile ==
    /\ pc = "parsed"
    /\ err = NoError
    /\ \E source \in Sources(types) :
          LET returned(r) ==
                  compiled' = [source |-> source, out |-> r.out, err |-> r.err,
                               log |-> r.log]
          IN returned(Compile(sys, nodes, source, p.first, <<>>))
    /\ pc' = "compiled"
    /\ UNCHANGED <<types, sys, sysErr, opts, p, nodes, err, linkError, strs, round>>

\* The caller parses the string of a chain that linked without error, with the
\* same System, root type and expected types.
Reparse ==
    /\ pc = "printed"
    /\ round = 1
    /\ err = NoError
    /\ round' = 2
    /\ ParseStart([opts EXCEPT !.Expression = strs[1]])
    /\ UNCHANGED <<types, sys, sysErr, strs, compiled>>

Next ==
    \/ CallNewSystem
    \/ CallParse
    \/ ParseExprStep
    \/ LinkAndReturn
    \/ CallString
    \/ Reparse
    \/ CallCompile

Spec == Init /\ [][Next]_vars

-----------------------------------------------------------------------------
(* The same caller with a lone literal, no expected type, and a System built *)
(* from literal types declared in any order.                                 *)

\* The most literal types declared beside the root type.
MaxTypes == 2

TypeRoot == Type("context", <<>>, EmptyMap, <<>>, "nil", 0)

EnumType(name, enums, parseOrder) == Type(name, <<>>, EmptyMap, enums, "nil", parseOrder)

\* aa and bb tie on ParseOrder, Parse and name length; ccc has the longer name;
\* t has a Parse function (it takes every literal); h has the higher ParseOrder.
LiteralTypes ==
    { EnumType("aa", << <<"x">> >>, 0),
      EnumType("bb", << <<"x">> >>, 0),
      EnumType("ccc", << <<"x">>, <<"1">> >>, 0),
      Type("t", <<>>, EmptyMap, <<>>, "text", 0),
      EnumType("h", << <<"x">> >>, 1) }

\* The sequences that declare each type of S once.
Orderings(S) ==
    { ts \in [1..Cardinality(S) -> S] : \A i, j \in 1..Cardinality(S) : i # j => ts[i] # ts[j] }

Declarations ==
    UNION { Orderings(S \cup {TypeRoot}) :
              S \in { S \in SUBSET LiteralTypes : Cardinality(S) \in 1..MaxTypes } }

Literals == { <<"x">>, <<"1">>, <<"y">> }

InitOrder ==
    /\ types \in Declarations
    /\ sys = [T |-> <<>>, types |-> <<>>, typeMap |-> EmptyMap, parseOrder |-> <<>>,
              Message |-> ""]
    /\ sysErr = ""
    /\ opts \in { Options("context", <<>>, e) : e \in Literals }
    /\ p = newParser(<<>>)
    /\ nodes = <<>>
    /\ err = NoError
    /\ linkError = NoError
    /\ strs = <<>>
    /\ round = 1
    /\ compiled = NotCompiled
    /\ pc = "new"

SpecOrder == InitOrder /\ [][Next]_vars

-----------------------------------------------------------------------------
(* What the claims speak of. *)

\* System.Parse has returned.
Returned == pc \in {"parsed", "printed"}

\* A node the linker made (a conversion step or a default argument): the
\* parser gives every node it makes an End past index 0.
Synthesized(c) == nodes[c].End.Index = 0

\* The nodes the linker bound to a Value by looking up their token; linkArguments
\* ran on each of them.
LinkedCalls == { c \in DOMAIN nodes : nodes[c].Value # NilValue /\ ~Synthesized(c) }

DeclaredParameters(c) == ValueAt(sys, nodes[c].Value).Parameters

\* The arguments written in the expression for node c, in order.
WrittenArguments(c) == SelectSeq(nodes[c].Arguments, LAMBDA a : ~Synthesized(a))

\* The node that ended the chain of head a as it was written.
RECURSIVE WrittenLast(_)
WrittenLast(a) ==
    IF nodes[a].Next = Nil \/ Synthesized(nodes[a].Next) THEN a ELSE WrittenLast(nodes[a].Next)

TypeName(t) == sys.T[t].Name

LinkFailedAt(c, message) == linkError.Expr = c /\ linkError.Message = message

-----------------------------------------------------------------------------
\* C1: for every expression that Parse links without error, Parse of the text
\* String() returns, with the same System, root type and expected types,
\* succeeds and yields a chain whose String() is the same text.
C1_RoundTrip ==
    (round = 2 /\ pc \in {"parsed", "printed", "panic"}) =>
        /\ err = NoError
        /\ (pc = "printed" => strs[2] = strs[1])

\* C2: after a successful link, the chain of every argument given for a
\* non-generic parameter ends in the parameter's declared type (so an argument
\* that neither has nor converts to that type makes the link fail).
C2_ArgumentsEndInParameterType ==
    (Returned /\ linkError = NoError) =>
        \A a \in DOMAIN nodes :
            (nodes[a].Parameter # NilParameter /\ ~ParameterAt(sys, nodes[a].Parameter).Generic)
                => TypeName(nodes[Last(nodes, a)].Type) = ParameterAt(sys, nodes[a].Parameter).Type

\* The number of parameters of a Value that carry a default.
DefaultCount(ps) == Cardinality({ j \in DOMAIN ps : ps[j].Default # <<>> })

\* C3: a non-variadic Value with N parameters, M of them with defaults, is
\* rejected with "expects at least" for fewer than N-M arguments, with "expects
\* no more than" for more than N, and is not rejected for arity for N-M to N
\* arguments; a variadic Value with a parameter is never rejected for too many.
C3_Arity ==
    Returned =>
        \A c \in LinkedCalls :
            LET v     == ValueAt(sys, nodes[c].Value)
                N     == Len(v.Parameters)
                M     == DefaultCount(v.Parameters)
                given == Len(WrittenArguments(c))
            IN /\ (~v.Variadic /\ given < N - M) => LinkFailedAt(c, "expects at least parameters")
               /\ (~v.Variadic /\ given > N) => LinkFailedAt(c, "expects no more than parameters")
               /\ (~v.Variadic /\ given >= N - M /\ given <= N) =>
                      /\ ~LinkFailedAt(c, "expects at least parameters")
                      /\ ~LinkFailedAt(c, "expects no more than parameters")
               /\ (v.Variadic /\ N >= 1) => ~LinkFailedAt(c, "expects no more than parameters")

\* C4: when a call gives fewer arguments than its Value declares and every
\* missing parameter has a default, the link does not fail at the call, and
\* once linked the call's Arguments end with one constant node per missing
\* parameter, in order: token the default, type the parameter's type, Parsed
\* the parsed default.
C4_DefaultsFilled ==
    Returned =>
        \A c \in LinkedCalls :
            LET ps    == DeclaredParameters(c)
                given == Len(WrittenArguments(c))
            IN (given < Len(ps) /\ \A j \in (given + 1)..Len(ps) : ps[j].Default # <<>>) =>
                  /\ linkError.Expr # c
                  /\ linkError = NoError =>
                        /\ Len(nodes[c].Arguments) = Len(ps)
                        /\ \A j \in (given + 1)..Len(ps) :
                              LET a == nodes[nodes[c].Arguments[j]] IN
                                /\ a.Token = ps[j].Default[1]
                                /\ a.Constant
                                /\ a.Type = SystemType(sys, ps[j].Type)
                                /\ a.Type # Nil
                                /\ a.Parsed = ParseInput(sys.T[a.Type], ps[j].Default[1]).value

\* The arguments of call c given for generic parameters, once each is linked.
GenericArguments(c) ==
    SelectSeq(nodes[c].Arguments,
              LAMBDA a : nodes[a].Parameter # NilParameter
                         /\ ParameterAt(sys, nodes[a].Parameter).Generic)

\* The types the generic arguments of c ended in as they were written.
ResultTypes(c) ==
    { nodes[WrittenLast(GenericArguments(c)[i])].Type : i \in DOMAIN GenericArguments(c) }

\* Every type of R other than t converts to t via As.
ConvertAllTo(R, t) == \A u \in R : u = t \/ AsValue(sys.T[u], TypeName(t)) # Nil

GenericCalls == { c \in LinkedCalls : ValueAt(sys, nodes[c].Value).Generic }

\* C5: after a successful link the type of a generic Value is the common type
\* of the result types of its generic arguments (the shared type, or else the
\* one type all the others convert to via As), and every generic argument
\* chain ends in that type.
C5_GenericResolved ==
    (Returned /\ linkError = NoError) =>
        \A c \in GenericCalls :
            /\ nodes[c].Type \in ResultTypes(c)
            /\ ConvertAllTo(ResultTypes(c), nodes[c].Type)
            /\ \A i \in DOMAIN GenericArguments(c) :
                  nodes[Last(nodes, GenericArguments(c)[i])].Type = nodes[c].Type

\* C6: the link of a generic Value fails with "generic type could not be
\* determined" whenever the result types of its generic arguments are neither
\* all the same nor all convertible via As to one of them.
C6_GenericUndetermined ==
    Returned =>
        \A c \in GenericCalls :
            (/\ \A i \in DOMAIN nodes[c].Arguments :
                   nodes[nodes[c].Arguments[i]].Parameter # NilParameter
             /\ ResultTypes(c) # {}
             /\ ~\E t \in ResultTypes(c) : ConvertAllTo(ResultTypes(c), t))
                => LinkFailedAt(c, "generic type could not be determined")

\* C7: a token that is quoted or matches no Value of its context type, and is
\* not the first node of its chain, makes the link fail with "invalid value",
\* with or without expected types, last in the chain or not.
C7_InvalidValue ==
    Returned =>
        \A c \in DOMAIN nodes :
            (/\ ~Synthesized(c)
             /\ nodes[c].Start # nodes[c].End
             /\ nodes[c].Prev # Nil
             /\ nodes[c].ParentType # Nil
             /\ nodes[c].Value = NilValue)
                => LinkFailedAt(c, "invalid value")

\* The chain Parse returns.
TopChain == Chain(nodes, p.first)

\* The loop of the outermost link ran to the end of the chain.
TopLinked ==
    /\ Returned
    /\ p.first # Nil
    /\ \/ linkError = NoError
       \/ /\ linkError.Message = "expected type(s) but was given instead"
          /\ linkError.Expr \in Range(TopChain)

ExpectedTypes == [i \in DOMAIN opts.ExpectedTypes |-> SystemType(sys, opts.ExpectedTypes[i])]

\* The expected types, by position, that type t has an As entry for.
Convertible(t) == { i \in DOMAIN ExpectedTypes : AsValue(sys.T[t], TypeName(ExpectedTypes[i])) # Nil }

\* C8: when the final type T of the chain is not an expected type and T has an
\* As entry for one of them, the link appends exactly one node after the former
\* last node: its Value is T's As value for the first expected type with an
\* entry, its Type that expected type, its Prev the former last node.
C8_OneConversion ==
    TopLinked =>
        LET former == WrittenLast(p.first)
            T      == nodes[former].Type
        IN (/\ Len(ExpectedTypes) > 0
            /\ \A i \in DOMAIN ExpectedTypes : ExpectedTypes[i] # T
            /\ Convertible(T) # {}) =>
               LET to   == ExpectedTypes[Min(Convertible(T))]
                   next == nodes[former].Next
               IN /\ next # Nil
                  /\ Synthesized(next)
                  /\ nodes[next].Next = Nil
                  /\ nodes[next].Prev = former
                  /\ nodes[next].Value = [t |-> T, k |-> AsValue(sys.T[T], TypeName(to))]
                  /\ nodes[next].Type = to
                  /\ nodes[next].Token = ValueAt(sys, nodes[next].Value).Path
                  /\ Len(nodes) = next

\* C8 happens: a chain ending in int was asked to be bool or text, and the
\* step to text (the second expected type) was appended.
C8_Witness ==
    /\ TopLinked
    /\ round = 1
    /\ opts.ExpectedTypes = <<"bool", "text">>
    /\ TypeName(nodes[WrittenLast(p.first)].Type) = "int"
    /\ nodes[WrittenLast(p.first)].Next # Nil
    /\ TypeName(nodes[Last(nodes, p.first)].Type) = "text"

\* C9: when Parse returns a nil error for Options with expected types, the
\* Expr is not nil and the Type of its last node is an expected type; a chain
\* whose final type is no expected type and converts to none fails with
\* "expected type(s) X but was given Y instead".
C9_ExpectedTypeMet ==
    /\ (Returned /\ err = NoError /\ Len(opts.ExpectedTypes) > 0) =>
          /\ p.first # Nil
          /\ nodes[Last(nodes, p.first)].Type \in Range(ExpectedTypes)
    /\ (TopLinked /\ Len(opts.ExpectedTypes) > 0
        /\ nodes[Last(nodes, p.first)].Type \notin Range(ExpectedTypes)) =>
          LinkFailedAt(Last(nodes, p.first), "expected type(s) but was given instead")

\* Parse has linked a chain whose first node is a literal, with no expected type.
LiteralLinked ==
    /\ Returned
    /\ Len(opts.ExpectedTypes) = 0
    /\ p.first # Nil
    /\ nodes[p.first].Value = NilValue
    /\ linkError.Message \in {"", "type could not be determined"}

\* The places of the parse order whose type parses the token.
ParsersOf(s, token) ==
    { i \in DOMAIN s.parseOrder : ParseInput(s.T[s.parseOrder[i]], token).ok }

\* The name of the type a first literal gets in the System of declarations ts,
\* "" when no type parses it.
ChosenName(ts, token) ==
    LET s == CHOOSE built \in NewSystem(ts) : TRUE IN
    IF ParsersOf(s, token) = {} THEN ""
    ELSE s.T[s.parseOrder[Min(ParsersOf(s, token))]].Name

\* The literal got the first type of the parse order that parses it.
FirstParserChosen ==
    LET token == nodes[p.first].Token IN
    IF ParsersOf(sys, token) = {} THEN nodes[p.first].Type = Nil
    ELSE nodes[p.first].Type = sys.parseOrder[Min(ParsersOf(sys, token))]

\* Type a comes before type b by the three keys of the order.
Before(a, b) ==
    \/ a.ParseOrder > b.ParseOrder
    \/ a.ParseOrder = b.ParseOrder /\ a.Parse # "nil" /\ b.Parse = "nil"
    \/ a.ParseOrder = b.ParseOrder /\ (a.Parse # "nil") = (b.Parse # "nil")
       /\ Len(a.Name) > Len(b.Name)

Tied(a, b) == ~Before(a, b) /\ ~Before(b, a)

\* Every declaration order of the same types gives the literal the same type.
SameInAnyOrder ==
    \A ts \in Orderings(Range(types)) :
        ChosenName(ts, nodes[p.first].Token)
            = (IF nodes[p.first].Type = Nil THEN "" ELSE TypeName(nodes[p.first].Type))

\* C10 as stated: a first literal with no expected type gets the first type of
\* the parse order that parses it; the order is total (higher ParseOrder, then
\* Parse before enum-only, then longer name); and the same types and token give
\* the same type in whatever order the types are declared.
C10_TotalOrder ==
    LiteralLinked =>
        /\ FirstParserChosen
        /\ \A i, j \in DOMAIN sys.parseOrder :
              i < j => Before(sys.T[sys.parseOrder[i]], sys.T[sys.parseOrder[j]])
        /\ SameInAnyOrder

\* C10 amended: the three keys leave types that agree on all of them tied, and
\* tied types stay in the order they were declared in; the chosen type is the
\* same in every declaration order when no other type that parses the token is
\* tied with it.
C10_TiesInDeclarationOrder ==
    LiteralLinked =>
        /\ FirstParserChosen
        /\ \A i, j \in DOMAIN sys.parseOrder :
              i < j =>
                LET a == sys.parseOrder[i]
                    b == sys.parseOrder[j]
                IN \/ Before(sys.T[a], sys.T[b])
                   \/ Tied(sys.T[a], sys.T[b]) /\ a < b
        /\ (\A i \in ParsersOf(sys, nodes[p.first].Token) :
               \/ sys.parseOrder[i] = nodes[p.first].Type
               \/ ~Tied(sys.T[sys.parseOrder[i]], sys.T[nodes[p.first].Type]))
              => SameInAnyOrder

\* C10 happens: two tied types parse the literal and the one declared first
\* was chosen.
C10_Witness ==
    /\ LiteralLinked
    /\ nodes[p.first].Type # Nil
    /\ \E i \in ParsersOf(sys, nodes[p.first].Token) :
          /\ sys.parseOrder[i] > nodes[p.first].Type
          /\ Tied(sys.T[sys.parseOrder[i]], sys.T[nodes[p.first].Type])

-----------------------------------------------------------------------------
(* The lexer's errors. *)

Quotes == {"'", "\""}

\* Reading e from character i on: a quote that opens a constant is never
\* closed.  mode is "" between tokens and in a word, "s" in a symbolic token
\* (which runs to the next stop character), or the quote that opened the
\* constant being read.
RECURSIVE UnterminatedFrom(_, _, _, _)
UnterminatedFrom(e, i, mode, escaped) ==
    IF i > Len(e) THEN mode \in Quotes
    ELSE IF mode \in Quotes
    THEN IF e[i] = "\\" /\ ~escaped THEN UnterminatedFrom(e, i + 1, mode, TRUE)
         ELSE IF e[i] = mode /\ ~escaped THEN UnterminatedFrom(e, i + 1, "", FALSE)
         ELSE UnterminatedFrom(e, i + 1, mode, FALSE)
    ELSE IF e[i] \in stopChars THEN UnterminatedFrom(e, i + 1, "", FALSE)
    ELSE IF mode = "s" THEN UnterminatedFrom(e, i + 1, "s", FALSE)
    ELSE IF e[i] \in Quotes THEN UnterminatedFrom(e, i + 1, e[i], FALSE)
    ELSE IF e[i] \in wordChars \/ e[i] \in spaceChars \/ e[i] = "\n"
    THEN UnterminatedFrom(e, i + 1, "", FALSE)
    ELSE UnterminatedFrom(e, i + 1, "s", FALSE)

Unterminated(e) == UnterminatedFrom(e, 1, "", FALSE)

\* C11: for an input with an opening quote that no unescaped quote closes,
\* Parse returns a ParseError, "quoted constant did not have a terminating
\* quote" (or the "unexpected )" it met before the quote).
C11_UnterminatedQuote ==
    [][(pc = "lex" /\ pc' # "lex" /\ Unterminated(opts.Expression)) =>
          /\ pc' = "parsed"
          /\ err'.Message \in {"quoted constant did not have a terminating quote",
                               "unexpected )"}]_vars

\* Reading e from character i on, outside quotes: -1 when a ")" comes while no
\* parenthesis is open, else the number of "(" still open at the end.
RECURSIVE OpenFrom(_, _, _, _, _)
OpenFrom(e, i, mode, escaped, depth) ==
    IF i > Len(e) THEN depth
    ELSE IF mode \in Quotes
    THEN IF e[i] = "\\" /\ ~escaped THEN OpenFrom(e, i + 1, mode, TRUE, depth)
         ELSE IF e[i] = mode /\ ~escaped THEN OpenFrom(e, i + 1, "", FALSE, depth)
         ELSE OpenFrom(e, i + 1, mode, FALSE, depth)
    ELSE IF e[i] = "(" THEN OpenFrom(e, i + 1, "", FALSE, depth + 1)
    ELSE IF e[i] = ")"
    THEN IF depth = 0 THEN -1 ELSE OpenFrom(e, i + 1, "", FALSE, depth - 1)
    ELSE IF e[i] \in stopChars THEN OpenFrom(e, i + 1, "", FALSE, depth)
    ELSE IF mode = "s" THEN OpenFrom(e, i + 1, "s", FALSE, depth)
    ELSE IF e[i] \in Quotes THEN OpenFrom(e, i + 1, e[i], FALSE, depth)
    ELSE IF e[i] \in wordChars \/ e[i] \in spaceChars \/ e[i] = "\n"
    THEN OpenFrom(e, i + 1, "", FALSE, depth)
    ELSE OpenFrom(e, i + 1, "s", FALSE, depth)

Open(e) == OpenFrom(e, 1, "", FALSE, 0)

\* C12: a ")" met while no parenthesis is open makes Parse return "unexpected
\* )"; input ending with K parentheses open makes Parse return the error that
\* reports K missing terminating parentheses; balanced input gets neither.
C12_Parentheses ==
    [][(pc = "lex" /\ pc' # "lex" /\ ~Unterminated(opts.Expression)) =>
          /\ Open(opts.Expression) = -1 =>
                pc' = "parsed" /\ err'.Message = "unexpected )"
          /\ Open(opts.Expression) > 0 =>
                /\ pc' = "parsed"
                /\ err'.Message = "expression missing terminating parenthesis"
                /\ err'.N = Open(opts.Expression)
          /\ Open(opts.Expression) = 0 =>
                err'.Message \notin {"unexpected )",
                                     "expression missing terminating parenthesis"}]_vars

\* The indices just after a ".", "," or "(" of e that is followed at once by
\* the end of the input or by another structural character ("()" apart).
ExpectingAt(e) ==
    { i \in 1..Len(e) :
        /\ e[i] \in nextChars
        /\ i = Len(e) \/ e[i + 1] \in stopChars
        /\ ~(e[i] = "(" /\ i < Len(e) /\ e[i + 1] = ")") }

NoQuotes(e) == \A i \in 1..Len(e) : e[i] \notin Quotes

\* The parser's nodes in ns that cover no character of the input.
Placeholders(ns) ==
    { c \in DOMAIN ns : ns[c].Start = ns[c].End /\ ns[c].End.Index > 0 }

\* C13: where a ".", "," or "(" is followed at once by the end of the
\* input or by another structural character, the parser appends an empty-token
\* node with Start = End at that position and Parse reports "expecting a value
\* but found nothing".
C13_PlaceholderWhereExpected ==
    [][(pc = "lex" /\ pc' # "lex" /\ NoQuotes(opts.Expression)
        /\ ExpectingAt(opts.Expression) # {}) =>
          /\ pc' = "parsed"
          /\ err'.Message = "expression expecting a value but found nothing"
          /\ \A i \in ExpectingAt(opts.Expression) :
                \E c \in Placeholders(nodes') :
                    nodes'[c].Token = <<>> /\ nodes'[c].Start.Index = i]_vars

-----------------------------------------------------------------------------
(* Whitespace.                                                               *)

Whitespace == spaceChars \cup {"\n"}

\* e without the whitespace that stands outside quotes.
RECURSIVE StripFrom(_, _, _, _)
StripFrom(e, i, quote, escaped) ==
    IF i > Len(e) THEN <<>>
    ELSE IF quote # ""
    THEN <<e[i]>> \o StripFrom(e, i + 1,
                               IF e[i] = quote /\ ~escaped THEN "" ELSE quote,
                               e[i] = "\\" /\ ~escaped)
    ELSE IF e[i] \in Whitespace THEN StripFrom(e, i + 1, "", FALSE)
    ELSE <<e[i]>> \o StripFrom(e, i + 1, IF e[i] \in Quotes THEN e[i] ELSE "", FALSE)

Strip(e) == StripFrom(e, 1, "", FALSE)

\* e is an expression with whitespace put before or after its tokens and
\* structural characters: there is some, and none of it parts two word
\* characters, which without it would be one token.
Spaced(e) ==
    /\ Strip(e) # e
    /\ Strip(e) # <<>>
    /\ \A i, j \in 1..Len(e) :
          (i + 1 < j /\ e[i] \in wordChars /\ e[j] \in wordChars)
             => \E k \in (i + 1)..(j - 1) : e[k] \notin Whitespace

\* What the claim compares of the nodes of a chain: token and structure.
Shape(ns) ==
    [c \in DOMAIN ns |->
        [Token |-> ns[c].Token, Arguments |-> ns[c].Arguments, Next |-> ns[c].Next,
         Prev |-> ns[c].Prev, Parent |-> ns[c].Parent]]

\* C14: Parse of an expression with whitespace before or after its tokens and
\* structural characters returns the tokens, the structure and the error that
\* Parse of the expression without that whitespace returns.
C14_WhitespaceSkipped ==
    (pc = "parsed" /\ round = 1 /\ Spaced(opts.Expression)) =>
        LET same(r) ==
                /\ Shape(r.nodes) = Shape(nodes)
                /\ r.err.Message = err.Message
                /\ r.err.N = err.N
                /\ r.err.Expr = err.Expr
        IN same(Parse(sys, [opts EXCEPT !.Expression = Strip(opts.Expression)]))

-----------------------------------------------------------------------------
(* The same caller with Systems built from declarations that are sound or    *)
(* flawed in one place, and with names written in either case.               *)

BuildInt ==
    Type("int",
         << Value(<<"a", "b", "s">>, << <<"M", "a", "g">> >>, "int", FALSE, NoParameters, FALSE),
            Value(<<">">>, << <<"g", "t">> >>, "bool", FALSE,
                  << Parameter("value", "int", FALSE, NoDefault) >>, FALSE) >>,
         EmptyMap, <<>>, "int", 0)

\* The int type with an As entry for bool that names abs, a value of type int.
BuildIntAs == [BuildInt EXCEPT !.As = "bool" :> <<"a", "b", "s">>]

BuildBool == Type("bool", <<>>, EmptyMap, <<>>, "bool", 0)

BuildText == Type("text", <<>>, EmptyMap, <<>>, "text", -1)

ContextOf(values) == Type("context", values, EmptyMap, <<>>, "nil", 0)

Field(path, aliases, type) == Value(path, aliases, type, FALSE, NoParameters, FALSE)

\* The values of the context type: sound; two paths, two aliases, or an alias
\* and a path that differ in case only; a path and an alias that the pattern
\* rejects; a value and parameters of a type nobody declares; a value of a
\* declared type written in another case.
ContextValues ==
    { << Field(<<"N">>, << <<"n", "u", "m">> >>, "int"), Field(<<"t">>, NoAliases, "text") >>,
      << Field(<<"n">>, NoAliases, "int"), Field(<<"N">>, NoAliases, "text") >>,
      << Field(<<"n">>, << <<"v">> >>, "int"), Field(<<"t">>, << <<"V">> >>, "text") >>,
      << Field(<<"n">>, NoAliases, "int"), Field(<<"t">>, << <<"N">> >>, "text") >>,
      << Field(<<"n">>, NoAliases, "int"), Field(<<"n", ".", "x">>, NoAliases, "int") >>,
      << Field(<<"n">>, << <<"n", "(">> >>, "int") >>,
      << Field(<<"n">>, NoAliases, "float") >>,
      << Value(<<"n">>, NoAliases, "int", FALSE,
               << Parameter("a", "float", FALSE, NoDefault) >>, FALSE) >>,
      << Value(<<"n">>, NoAliases, "", TRUE,
               << Parameter("a", "float", FALSE, NoDefault),
                  Parameter("g", "", TRUE, NoDefault) >>, FALSE) >>,
      << Field(<<"n">>, NoAliases, "Int") >> }

\* The context type declared before or after the types its values name.
BuildDeclarations ==
    { << ContextOf(cv), BuildInt, BuildBool, BuildText >> : cv \in ContextValues }
      \cup { << BuildInt, BuildBool, BuildText, ContextOf(cv) >> : cv \in ContextValues }
      \cup { << ContextOf(<< Field(<<"n">>, NoAliases, "int") >>), BuildIntAs, BuildBool,
                BuildText >> }

BuildExpressions ==
    { <<"n">>, <<"N">>, <<"N", "U", "M">>, <<"'", "n", "'">>, <<"v">>, <<"t">>,
      <<"n", ".", "A", "B", "S">>, <<"N", ".", "m", "a", "g">>, <<"n", ".", "x">>,
      <<"n", ">", "(", "1", ")">>, <<"n", ".", "G", "T", "(", "N", ")">> }

BuildRoots == { "context", "Context" }

BuildExpected == { <<>>, <<"int">>, <<"INT">>, <<"bool">> }

InitBuild ==
    /\ types \in BuildDeclarations
    /\ sys = [T |-> <<>>, types |-> <<>>, typeMap |-> EmptyMap, parseOrder |-> <<>>,
              Message |-> ""]
    /\ sysErr = ""
    /\ opts \in { Options(r, x, e) : r \in BuildRoots, x \in BuildExpected,
                                     e \in BuildExpressions }
    /\ p = newParser(<<>>)
    /\ nodes = <<>>
    /\ err = NoError
    /\ linkError = NoError
    /\ strs = <<>>
    /\ round = 1
    /\ compiled = NotCompiled
    /\ pc = "new"

SpecBuild == InitBuild /\ [][Next]_vars

\* The lowercase forms of the path and the aliases of a Value.
Names(v) == {ToLower(v.Path)} \cup { ToLower(v.Aliases[a]) : a \in DOMAIN v.Aliases }

\* Two Values of one Type share a path or alias, compared case-insensitively.
Ambiguous(ts) ==
    \E i \in DOMAIN ts : \E k1, k2 \in DOMAIN ts[i].Values :
        k1 # k2 /\ Names(ts[i].Values[k1]) \cap Names(ts[i].Values[k2]) # {}

\* Some path or alias does not match the identifier-or-symbol pattern.
Malformed(ts) ==
    \E i \in DOMAIN ts : \E k \in DOMAIN ts[i].Values :
        \/ ~pathValidator(ts[i].Values[k].Path)
        \/ \E a \in DOMAIN ts[i].Values[k].Aliases : ~pathValidator(ts[i].Values[k].Aliases[a])

\* C15: NewSystem returns a SystemError when two Values of one Type share a
\* path or alias, compared case-insensitively, or when a path or alias does
\* not match the identifier-or-symbol pattern.
C15_AmbiguousOrMalformedRejected ==
    (pc # "new" /\ (Ambiguous(types) \/ Malformed(types))) => sysErr # ""

\* Some non-generic Value or non-generic Parameter names a type nobody declares.
NamesUndeclared(ts) ==
    LET declared == { ts[i].Name : i \in DOMAIN ts } IN
    \E i \in DOMAIN ts : \E k \in DOMAIN ts[i].Values :
        LET v == ts[i].Values[k] IN
          \/ ~v.Generic /\ v.Type \notin declared
          \/ \E j \in DOMAIN v.Parameters :
                ~v.Parameters[j].Generic /\ v.Parameters[j].Type \notin declared

\* C16: after NewSystem succeeds, ValueType() of every non-generic Value and
\* ParameterType() of every non-generic Parameter is the registered Type of the
\* declared name, in whatever order the types were declared; when one of them
\* names a type that is not registered, NewSystem returns a SystemError.
C16_ReferencesResolved ==
    /\ (pc # "new" /\ NamesUndeclared(types)) => sysErr # ""
    /\ (pc # "new" /\ sysErr = "") =>
          \A i \in DOMAIN sys.T : \A k \in DOMAIN sys.T[i].Values :
              LET v == sys.T[i].Values[k] IN
                /\ ~v.Generic =>
                      /\ sys.T[i].valueType[k] # Nil
                      /\ sys.T[i].valueType[k] = SystemType(sys, v.Type)
                /\ \A j \in DOMAIN v.Parameters :
                      ~v.Parameters[j].Generic =>
                          /\ ParameterType(sys, v.Parameters[j]) # Nil
                          /\ ParameterType(sys, v.Parameters[j])
                                = SystemType(sys, v.Parameters[j].Type)

\* C17: the System that NewSystem returns with an error holds no types:
\* Types() has no populated entry and Type(name) is nil for every name.
C17_NoPartialSystem ==
    (pc # "new" /\ sysErr # "") =>
        /\ \A i \in DOMAIN sys.types : sys.types[i] = Nil
        /\ \A i \in DOMAIN types : SystemType(sys, types[i].Name) = Nil

\* The lowercase form of the type names written in another case.
LowerName(name) ==
    CASE name = "Int" -> "int"
      [] name = "INT" -> "int"
      [] name = "Context" -> "context"
      [] OTHER -> name

\* The type names the caller writes, in declarations and in options.
WrittenNames ==
    { types[i].Name : i \in DOMAIN types }
       \cup UNION { { types[i].Values[k].Type : k \in DOMAIN types[i].Values } :
                       i \in DOMAIN types }
       \cup BuildRoots \cup UNION { Range(x) : x \in BuildExpected }

\* C18: two type names that are equal after lowercasing resolve to the same
\* Type, in System.Type, in Options.RootType and Options.ExpectedTypes, and
\* in the type names declared on Values.
C18_TypeNamesIgnoreCase ==
    pc # "new" =>
        /\ sysErr = "" =>
              \A a, b \in WrittenNames :
                  LowerName(a) = LowerName(b) => SystemType(sys, a) = SystemType(sys, b)
        /\ sysErr = "could not be found" =>
              \E i \in DOMAIN types : \E k \in DOMAIN types[i].Values :
                  \/ LowerName(types[i].Values[k].Type)
                        \notin { LowerName(types[j].Name) : j \in DOMAIN types }
                  \/ \E j \in DOMAIN types[i].Values[k].Parameters :
                        LowerName(types[i].Values[k].Parameters[j].Type)
                           \notin { LowerName(types[h].Name) : h \in DOMAIN types }

-----------------------------------------------------------------------------
(* The binding of tokens to values.                                          *)

\* The node was written in quotes.
Quoted(c) ==
    /\ nodes[c].Start.Index < Len(opts.Expression)
    /\ opts.Expression[nodes[c].Start.Index + 1] \in Quotes

\* The text of the expression the node covers.
Written(c) == SubSeq(opts.Expression, nodes[c].Start.Index + 1, nodes[c].End.Index)

\* The Values of the node's context type that the token names, ignoring case.
Named(c) ==
    { k \in DOMAIN sys.T[nodes[c].ParentType].Values :
        ToLower(nodes[c].Token) \in Names(sys.T[nodes[c].ParentType].Values[k]) }

\* The nodes of the parser that the linker reached.
Reached == { c \in DOMAIN nodes : ~Synthesized(c) /\ nodes[c].ParentType # Nil }

\* tok is a run of consecutive characters of s.
Occurs(tok, s) ==
    \E i \in 1..(Len(s) - Len(tok) + 1) : SubSeq(s, i, i + Len(tok) - 1) = tok

\* C19: the linker binds a token to a Value of the context type exactly when
\* the token is unquoted and its lowercase form is the lowercase form of the
\* path or of an alias of that Value; a bound token is not parsed as a literal,
\* a quoted token is not bound, and the node keeps the spelling of the input,
\* which String() emits.
C19_TokenBinding ==
    Returned =>
        \A c \in Reached :
            /\ nodes[c].Value # NilValue <=> (~Quoted(c) /\ Named(c) # {})
            /\ nodes[c].Value # NilValue =>
                  /\ nodes[c].Value.t = nodes[c].ParentType
                  /\ nodes[c].Value.k \in Named(c)
                  /\ nodes[c].Parsed = NilParsed
                  /\ ~nodes[c].Constant
                  /\ nodes[c].Token = Written(c)
                  /\ pc = "printed" => Occurs(nodes[c].Token, strs[Len(strs)])

\* C19 happens: a token written in upper case was bound through an alias
\* written in lower case, and String() printed it as it was written.
C19_Witness ==
    /\ pc = "printed"
    /\ round = 1
    /\ \E c \in Reached :
          /\ nodes[c].Value # NilValue
          /\ nodes[c].Token # ToLower(nodes[c].Token)
          /\ ToLower(nodes[c].Token) # ToLower(ValueAt(sys, nodes[c].Value).Path)
          /\ Occurs(nodes[c].Token, strs[1])

-----------------------------------------------------------------------------
(* The chain returned with an error.                                         *)

\* The nodes of ns before node c in its chain.
RECURSIVE Preceding(_, _)
Preceding(ns, c) ==
    IF ns[c].Prev = Nil THEN {} ELSE {ns[c].Prev} \cup Preceding(ns, ns[c].Prev)

\* C20: when lexing or linking fails, Parse returns with the error the non-nil
\* chain built so far; every node before the failing node is linked (Type set,
\* and Value or Parsed set), the failing node has no Type, Value or Parsed, and
\* the error is the lexer's if there is one, otherwise the first linking error.
C20_PartialChain ==
    [][(pc = "lex" /\ pc' # "lex" /\ round = 1 /\ err' # NoError) =>
          /\ pc' = "parsed"
          /\ p'.first # Nil
          /\ err = NoError => err' = linkError'
          /\ err # NoError => err' = err
          /\ err'.Expr # Nil =>
                /\ nodes'[err'.Expr].Type = Nil
                /\ nodes'[err'.Expr].Value = NilValue
                /\ nodes'[err'.Expr].Parsed = NilParsed
                /\ \A c \in Preceding(nodes', err'.Expr) :
                      /\ nodes'[c].Type # Nil
                      /\ nodes'[c].Value # NilValue \/ nodes'[c].Parsed # NilParsed]_vars

-----------------------------------------------------------------------------
(* Compile.                                                                  *)

\* The type in whose context Compile reads node c: the type of the node
\* before it, the root type for the head of a chain.
ContextType(c) ==
    IF nodes[c].Prev # Nil THEN nodes[nodes[c].Prev].Type ELSE nodes[c].ParentType

\* The name and path under which the handler of a bound node c is registered.
HandlerKey(c) == << sys.T[ContextType(c)].Name, ToLower(ValueAt(sys, nodes[c].Value).Path) >>

\* The caller's source has a handler under that name and path.
Registered(key) ==
    /\ key[1] \in DOMAIN compiled.source.TypeCompilers
    /\ key[2] \in DOMAIN compiled.source.TypeCompilers[key[1]]

\* C21: for a non-constant node, Compile uses the handler registered under
\* the name of the node's context type and the lowercase of the primary path
\* of its Value, whatever the token's spelling; when the source has no
\* handler there, Compile returns the error of the lookup and calls no handler
\* for the node.
C21_HandlerLookup ==
    pc = "compiled" =>
        \A i \in DOMAIN compiled.log :
            /\ compiled.log[i].op = "call" =>
                  /\ Registered(HandlerKey(compiled.log[i].Expr))
                  /\ compiled.log[i].compiler.of = HandlerKey(compiled.log[i].Expr)
                  /\ compiled.log[i].compiler
                        = compiled.source.TypeCompilers[HandlerKey(compiled.log[i].Expr)[1]]
                                                       [HandlerKey(compiled.log[i].Expr)[2]]
            /\ compiled.log[i].op = "lookup" =>
                  /\ ~nodes[compiled.log[i].Expr].Constant
                  /\ IF Registered(HandlerKey(compiled.log[i].Expr))
                     THEN compiled.log[i].err = ""
                     ELSE /\ compiled.log[i].err # ""
                          /\ compiled.err = compiled.log[i].err
                          /\ \A j \in DOMAIN compiled.log :
                                compiled.log[j].op = "call"
                                   => compiled.log[j].Expr # compiled.log[i].Expr

\* C21 happens: the handler of a Value was called for a token that is an
\* alias of the Value, written in upper case.
C21_Witness ==
    /\ pc = "compiled"
    /\ \E i \in DOMAIN compiled.log :
          /\ compiled.log[i].op = "call"
          /\ ToLower(nodes[compiled.log[i].Expr].Token) # HandlerKey(compiled.log[i].Expr)[2]
          /\ nodes[compiled.log[i].Expr].Token # ToLower(nodes[compiled.log[i].Expr].Token)

\* The calls of compilers in the log of the last Compile, and the call (if
\* any) that compiled node c.
CompilerCalls == { i \in DOMAIN compiled.log : compiled.log[i].op \in {"call", "constant"} }
CallOf(c) == { i \in CompilerCalls : compiled.log[i].Expr = c }

\* C22: Compile calls the handlers in chain order: the head's handler gets the
\* initial value as previous and each later one the result of the node before
\* it; the handler of a non-constant node is called after each of its argument
\* chains was compiled, in argument order, each from the initial value and
\* with the same root type, and it gets their results in that order.
C22_ChainOrder ==
    pc = "compiled" =>
        \A i \in CompilerCalls :
            /\ compiled.log[i].Root = SystemType(sys, opts.RootType)
            /\ IF nodes[compiled.log[i].Expr].Prev = Nil
               THEN compiled.log[i].Previous = compiled.source.Initial
               ELSE \E j \in CallOf(nodes[compiled.log[i].Expr].Prev) :
                       j < i /\ compiled.log[i].Previous = compiled.log[j].out
            /\ compiled.log[i].op = "call" =>
                  /\ Len(compiled.log[i].Arguments) = Len(nodes[compiled.log[i].Expr].Arguments)
                  /\ \A k \in DOMAIN compiled.log[i].Arguments :
                        \E j \in CallOf(Last(nodes, nodes[compiled.log[i].Expr].Arguments[k])) :
                            /\ j < i
                            /\ compiled.log[i].Arguments[k] = compiled.log[j].out
                            /\ \A h \in 1..(k - 1) :
                                  \E g \in CallOf(Last(nodes,
                                                       nodes[compiled.log[i].Expr].Arguments[h])) :
                                      g < j

\* C22 happens: a handler after the head of the chain was called with two
\* compiled arguments.
C22_Witness ==
    /\ pc = "compiled"
    /\ compiled.err = ""
    /\ \E i \in CompilerCalls :
          /\ compiled.log[i].op = "call"
          /\ nodes[compiled.log[i].Expr].Prev # Nil
          /\ Len(compiled.log[i].Arguments) = 2
          /\ compiled.log[i].Arguments[1] # compiled.log[i].Arguments[2]

\* C23: when a handler lookup, the compilation of an argument, or a handler
\* returns an error, Compile makes no further lookup or call and returns that
\* error with no partial result: not the value accumulated from the nodes
\* compiled before the failure.
C23_NoPartialResult ==
    (pc = "compiled" /\ compiled.err \notin {"", NilDereference}) =>
        /\ compiled.log # <<>>
        /\ compiled.log[Len(compiled.log)].err = compiled.err
        /\ \A i \in 1..(Len(compiled.log) - 1) : compiled.log[i].err = ""
        /\ compiled.out = NilCE

-----------------------------------------------------------------------------
(* The graph of nodes the parser builds.                                     *)

\* The nodes reached from c by following Next and Arguments.
RECURSIVE ReachableFrom(_, _)
ReachableFrom(ns, c) ==
    IF c = Nil THEN {}
    ELSE {c} \cup ReachableFrom(ns, ns[c].Next)
             \cup UNION { ReachableFrom(ns, ns[c].Arguments[k]) : k \in DOMAIN ns[c].Arguments }

\* C25: after Parse, every node the parser made is reached from the head by
\* Next and Arguments; every argument head stands once in the Arguments of
\* its Parent, in source order, and has no Prev; n.Next.Prev = n; no token is
\* left outside the chain, also after a comma outside parentheses.
C25_OneGraph ==
    (pc = "parsed" /\ round = 1) =>
        /\ \A c \in DOMAIN nodes : ~Synthesized(c) => c \in ReachableFrom(nodes, p.first)
        /\ \A c \in DOMAIN nodes : nodes[c].Next # Nil => nodes[nodes[c].Next].Prev = c
        /\ \A c \in DOMAIN nodes : \A k \in DOMAIN nodes[c].Arguments :
              /\ nodes[nodes[c].Arguments[k]].Parent = c
              /\ nodes[nodes[c].Arguments[k]].Prev = Nil
              /\ \A h \in DOMAIN nodes[c].Arguments :
                    h < k => nodes[nodes[c].Arguments[h]].Start.Index
                                < nodes[nodes[c].Arguments[k]].Start.Index

-----------------------------------------------------------------------------
(* Positions.                                                                *)

\* The indices of the newlines among the first i characters of e.
NewlinesBefore(e, i) == { k \in 1..i : e[k] = "\n" }

\* The Position of index i of e: the line is the number of newlines before
\* it, the column the distance from the character after the last of them.
PositionAt(e, i) ==
    Position(i, Cardinality(NewlinesBefore(e, i)),
             IF NewlinesBefore(e, i) = {} THEN i
             ELSE i - (CHOOSE k \in NewlinesBefore(e, i) : \A h \in NewlinesBefore(e, i) : h <= k))

\* C26: for every node the parser made, Start.Index is the index of the first
\* character of its text and End.Index the index just past the last, and Line
\* and Column of both count the newlines of the input before the index and
\* the distance from the last of them, wherever the newlines stand.
C26_Positions ==
    (pc = "parsed" /\ round = 1) =>
        \A c \in DOMAIN nodes : ~Synthesized(c) =>
            /\ nodes[c].Start = PositionAt(opts.Expression, nodes[c].Start.Index)
            /\ nodes[c].End = PositionAt(opts.Expression, nodes[c].End.Index)
            /\ nodes[c].Start.Index <= nodes[c].End.Index
            /\ IF Quoted(c)
               THEN opts.Expression[nodes[c].End.Index]
                       = opts.Expression[nodes[c].Start.Index + 1]
               ELSE nodes[c].Token = Written(c)

-----------------------------------------------------------------------------
(* The errors of the lexer.                                                  *)

LexerMessages ==
    { "quoted constant did not have a terminating quote", "unexpected )",
      "expression missing terminating parenthesis",
      "expression expecting a value but found nothing" }

\* C27: every ParseError that Parse returns for malformed quoting, unbalanced
\* parentheses or a missing value carries a non-nil Expr, whose Start and End
\* it takes.
C27_ErrorCarriesExpr ==
    (pc = "parsed" /\ err.Message \in LexerMessages) =>
        /\ err.Expr # Nil
        /\ err.Expr \in DOMAIN nodes

-----------------------------------------------------------------------------
(* Run-time faults.                                                          *)

\* C28: Parse returns, a chain or an error, without a run-time fault for
\* every non-empty expression whose quotes are all closed (C11 is the case of
\* the others); so for an opening parenthesis with no node before it in its
\* chain, followed by a token.
C28_ParseReturns ==
    [][(pc = "lex" /\ ~Unterminated(opts.Expression)) => pc' # "panic"]_vars

\* C30: String() of the chain Parse returned gives a string without a run-time
\* fault, also for a chain returned with an error whose placeholder, a node
\* with an empty token, follows another node.
C30_StringReturns ==
    [][(pc = "parsed" /\ p.first # Nil) => pc' # "panic"]_vars

-----------------------------------------------------------------------------
(* The types of a linked chain.                                              *)

\* The type the node before c in its chain has; the root type for a head.
TypeBefore(c) ==
    IF nodes[c].Prev = Nil THEN SystemType(sys, opts.RootType)
    ELSE nodes[nodes[c].Prev].Type

\* C29: in a chain linked without error against a System built without error,
\* the Value of every non-constant node is one of its ParentType, its
\* ParentType is the Type of the node before it (the root type for a head), and its Type is
\* the type its Value is declared to return unless the Value is generic; the
\* same for the conversion nodes link appends.
C29_LinkedTypes ==
    (pc = "parsed" /\ sysErr = "" /\ err = NoError) =>
        \A c \in ReachableFrom(nodes, p.first) :
            (~nodes[c].Constant /\ nodes[c].Value # NilValue) =>
                /\ nodes[c].Value.t = nodes[c].ParentType
                /\ nodes[c].ParentType = TypeBefore(c)
                /\ ~ValueAt(sys, nodes[c].Value).Generic =>
                      nodes[c].Type = sys.T[nodes[c].Value.t].valueType[nodes[c].Value.k]

-----------------------------------------------------------------------------
(* Two callers of one System.  Each calls Parse, one parseExpr call at a     *)
(* time, then prints or compiles a chain that it or the other caller got,    *)
(* one turn of Compile's loop at a time; the steps of the two interleave in  *)
(* every order.  A caller has its own parser and the nodes its Parse         *)
(* allocates (p[c], nodes[c]); the System is the one NewSystem built, and a  *)
(* chain that Parse returned is read by whoever compiles or prints it.       *)
(* round counts the Parse calls that began while another was under way.      *)

Callers == {1, 2}

\* A call that link ends with a conversion, a literal, and a chain returned
\* with an error.
SharedOptions ==
    { Options("context", <<"text">>, <<"n", ">", "(", "1", ")">>),
      Options("context", <<>>, <<"1">>),
      Options("context", <<>>, <<"n", ".">>) }

SharedSources ==
    { Source(TestTypes, "", <<>>, <<>>, FALSE), Source(TestTypes, "", <<>>, <<">">>, FALSE) }

\* Compile before its first turn, for no chain.
NotCompiling ==
    [source |-> <<>>, of |-> 0, root |-> Nil, current |-> Nil,
     out |-> NilCE, err |-> "", log |-> <<>>]

InitShared ==
    /\ types = TestTypes
    /\ sys \in NewSystem(TestTypes)
    /\ sysErr = ""
    /\ opts \in [Callers -> SharedOptions]
    /\ p = [c \in Callers |-> newParser(<<>>)]
    /\ nodes = [c \in Callers |-> <<>>]
    /\ err = [c \in Callers |-> NoError]
    /\ linkError = [c \in Callers |-> NoError]
    /\ strs = [c \in Callers |-> <<>>]
    /\ round = 0
    /\ compiled = [c \in Callers |-> NotCompiling]
    /\ pc = [c \in Callers |-> "built"]

\* The callers whose Parse has returned.
Returns == { c \in Callers : pc[c] \in {"parsed", "compiling", "compiled"} }

\* System.Parse up to newParser, called by c.
ParseBy(c) ==
    /\ pc[c] = "built"
    /\ err' = [err EXCEPT ![c] = ParseChecks(sys, opts[c])]
    /\ p' = [p EXCEPT ![c] = newParser(opts[c].Expression)]
    /\ pc' = [pc EXCEPT ![c] = IF err'[c] = NoError THEN "lex" ELSE "parsed"]
    /\ round' = IF \E d \in Callers \ {c} : pc[d] = "lex" THEN round + 1 ELSE round
    /\ UNCHANGED <<types, sys, sysErr, opts, nodes, linkError, strs, compiled>>

\* One turn of the loop over parseExpr in the Parse call of c.
ParseExprBy(c) ==
    /\ pc[c] = "lex"
    /\ hasData(p[c]) /\ err[c] = NoError
    /\ LET returned(r) ==
               /\ p' = [p EXCEPT ![c] = r.p]
               /\ nodes' = [nodes EXCEPT ![c] = r.nodes]
               /\ err' = [err EXCEPT ![c] = r.err]
               /\ pc' = [pc EXCEPT ![c] = IF IsPanic(r.err) THEN "panic" ELSE "lex"]
       IN returned(parseExpr(p[c], nodes[c]))
    /\ UNCHANGED <<types, sys, sysErr, opts, linkError, strs, round, compiled>>

\* What the link of p[c].first and the return of Parse give c.
LinkReturns(c) ==
    /\ pc[c] = "lex"
    /\ ~(hasData(p[c]) /\ err[c] = NoError)
    /\ LET root == SystemType(sys, opts[c].RootType)
           expectedTypes == [i \in DOMAIN opts[c].ExpectedTypes |->
                               SystemType(sys, opts[c].ExpectedTypes[i])]
           returned(r) ==
               /\ nodes' = [nodes EXCEPT ![c] = r.nodes]
               /\ linkError' = [linkError EXCEPT ![c] = r.err]
               /\ err' = [err EXCEPT ![c] =
                            IF IsPanic(r.err) \/ err[c] = NoError THEN r.err ELSE err[c]]
               /\ pc' = [pc EXCEPT ![c] = IF IsPanic(r.err) THEN "panic" ELSE "parsed"]
       IN returned(link(sys, nodes[c], p[c].first, expectedTypes, root))

\* A link that moves the last type of sys.parseOrder to the front, in the
\* array the System's slice shares with every copy of the System.
LinkByReordering(c) ==
    /\ LinkReturns(c)
    /\ sys' = [sys EXCEPT !.parseOrder = <<@[Len(@)]>> \o SubSeq(@, 1, Len(@) - 1)]
    /\ UNCHANGED <<types, sysErr, opts, p, strs, round, compiled>>

\* The rest of the Parse call of c: the link and the return.  Nothing of the
\* System is assigned.
LinkBy(c) ==
    /\ LinkReturns(c)
    /\ UNCHANGED <<types, sys, sysErr, opts, p, strs, round, compiled>>

\* c prints the chain that Parse returned to k: what String() gave, or its panic.
StringBy(c) ==
    /\ pc[c] = "parsed"
    /\ strs[c] = <<>>
    /\ \E k \in Returns :
          /\ p[k].first # Nil
          /\ LET returned(r) ==
                     strs' = [strs EXCEPT ![c] =
                                <<[of |-> k, out |-> r.out, err |-> r.err.Message]>>]
             IN returned(String(nodes[k], p[k].first))
    /\ UNCHANGED <<types, sys, sysErr, opts, p, nodes, err, linkError, round, compiled, pc>>

\* c calls Compile with the chain that Parse returned to k without an error:
\* Compile up to its loop.
CompileBy(c) ==
    /\ pc[c] = "parsed"
    /\ \E k \in Returns, source \in SharedSources :
          /\ err[k] = NoError
          /\ p[k].first # Nil
          /\ compiled' = [compiled EXCEPT ![c] =
                            [source |-> source, of |-> k,
                             root |-> nodes[k][p[k].first].ParentType,
                             current |-> p[k].first,
                             out |-> source.Initial, err |-> "", log |-> <<>>]]
    /\ pc' = [pc EXCEPT ![c] = "compiling"]
    /\ UNCHANGED <<types, sys, sysErr, opts, p, nodes, err, linkError, strs, round>>

\* One turn of `for current != nil` in the Compile call of c: the loop run on
\* the chain as it ends after current.
CompileTurnBy(c) ==
    /\ pc[c] = "compiling"
    /\ compiled[c].current # Nil /\ compiled[c].err = ""
    /\ LET st == compiled[c]
           turned(r) ==
               compiled' = [compiled EXCEPT ![c] =
                              [st EXCEPT !.out = r.out, !.err = r.err, !.log = r.log,
                                         !.current = IF r.err # "" THEN st.current
                                                     ELSE nodes[st.of][st.current].Next]]
       IN turned(compileChain(sys, [nodes[st.of] EXCEPT ![st.current].Next = Nil],
                              st.source, st.root, st.current, st.out, st.log))
    /\ UNCHANGED <<types, sys, sysErr, opts, p, nodes, err, linkError, strs, round, pc>>

\* `return last, err` of the Compile call of c.
CompileReturnBy(c) ==
    /\ pc[c] = "compiling"
    /\ compiled[c].current = Nil \/ compiled[c].err # ""
    /\ pc' = [pc EXCEPT ![c] = "compiled"]
    /\ UNCHANGED <<types, sys, sysErr, opts, p, nodes, err, linkError, strs, round, compiled>>

NextShared ==
    \E c \in Callers :
        \/ ParseBy(c)
        \/ ParseExprBy(c)
        \/ LinkBy(c)
        \/ StringBy(c)
        \/ CompileBy(c)
        \/ CompileTurnBy(c)
        \/ CompileReturnBy(c)

SpecShared == InitShared /\ [][NextShared]_vars

\* C24: no step of a Parse, a Compile or a String() writes to the System, and
\* none of a Compile or a String() writes to a chain Parse returned; so with
\* the steps of two callers interleaved in any order, each Parse has returned
\* the chain and the error that Parse returns for its options run alone, and
\* each String() and each Compile, of a chain the other caller may be
\* compiling too, what it returns for that chain run alone.
C24_AsAlone ==
    /\ sys \in NewSystem(types)
    /\ \A c \in Returns :
          LET same(r) == p[c].first = r.first /\ nodes[c] = r.nodes /\ err[c] = r.err
          IN same(Parse(sys, opts[c]))
    /\ \A c \in Callers :
          strs[c] # <<>> =>
              LET same(r, s) == strs[c][1].out = s.out /\ strs[c][1].err = s.err.Message
                  alone(r) == same(r, String(r.nodes, r.first))
              IN alone(Parse(sys, opts[strs[c][1].of]))
    /\ \A c \in Callers :
          pc[c] = "compiled" =>
              LET same(s) == /\ compiled[c].out = s.out
                             /\ compiled[c].err = s.err
                             /\ compiled[c].log = s.log
                  alone(r) == same(Compile(sys, r.nodes, compiled[c].source, r.first, <<>>))
              IN alone(Parse(sys, opts[compiled[c].of]))

\* Both callers are in the loop of Compile on the same chain, each with a turn
\* made and a turn to make, and a Parse began while the other was under way.
C24_Witness ==
    /\ round > 0
    /\ \A c \in Callers :
          /\ pc[c] = "compiling"
          /\ compiled[c].of = 1
          /\ compiled[c].log # <<>>
          /\ compiled[c].current # Nil
          /\ compiled[c].err = ""

====
